---- MODULE Spec2Model ----
(***************************************************************************)
(* A model of the experiment harness: ExperimentRunner (run_d1..run_d4),   *)
(* LLMHandler, QueryEnhancer and SearchHandler.                            *)
(*                                                                         *)
(* Encoding of Python values:                                              *)
(*   - a str that the code cuts, joins or formats is a Text: a sequence of *)
(*     tokens, each token one character or one unbreakable run of          *)
(*     characters; "" is << >> and a + b is a \o b;                        *)
(*   - a str that the code only compares (an engine name, an API key, a    *)
(*     role, a method tag) is a TLA+ string; PyNone stands for None;       *)
(*   - a dict is a record, `k in d` is k \in DOMAIN d;                     *)
(*   - a call that may raise yields [raised, value | exc, calls], calls    *)
(*     being the provider calls it issued, each with the reply it got.     *)
(***************************************************************************)
EXTENDS Integers, Sequences, FiniteSets, TLC

VARIABLES
    ctor,       \* the arguments ExperimentRunner was constructed with
    runner,     \* the ExperimentRunner object's fields
    scenario,   \* the scenario the strategies are run on
    now,        \* the clock datetime.now() reads; ticks once per run
    method,     \* the strategy run last ("none" before the first run)
    calls,      \* the provider calls the last run issued, in order
    returned,   \* the record the last run returned
    escaped,    \* << >>, or <<message>> of the exception the last run let out
    applied,    \* the function or method applied on its own ("none" before)
    applied_args,   \* the arguments it is applied to
    applied_result, \* what the application gave back
    store           \* the results file data/results.json

vars == <<ctor, runner, scenario, now, method, calls, returned, escaped,
          applied, applied_args, applied_result, store>>

----------------------------------------------------------------------------
(* Bounds of the model *)

\* longest conversation history of a scenario
MaxHist == 3
\* most results one search provider reply carries
MaxProviderResults == 2
\* strategy runs per behaviour
MaxRuns == 2

----------------------------------------------------------------------------
(* Python values *)

PyNone == "<None>"
\* a truthy value that is no str (engine.lower() raises AttributeError on it)
PyInt == "<int>"
NoRecord == [none |-> TRUE]
\* a file that does not exist
AbsentFile == [kind |-> "absent"]

Truthy(s) == s \notin {PyNone, ""}

\* d.get(key, default)
Get(d, key, default) == IF key \in DOMAIN d THEN d[key] ELSE default

Returns(v, cs) == [raised |-> FALSE, value |-> v, calls |-> cs]
Raises(msg, cs) == [raised |-> TRUE, exc |-> msg, calls |-> cs]

\* sep.join(parts)
RECURSIVE Join(_, _)
Join(sep, parts) ==
    IF parts = << >> THEN << >>
    ELSE IF Len(parts) = 1 THEN parts[1]
    ELSE parts[1] \o sep \o Join(sep, Tail(parts))

\* s.lstrip(chars), s.rstrip(chars), s.strip(chars) on a Text of characters
RECURSIVE LStrip(_, _)
LStrip(s, chars) ==
    IF s # << >> /\ Head(s) \in chars THEN LStrip(Tail(s), chars) ELSE s

RECURSIVE RStrip(_, _)
RStrip(s, chars) ==
    IF s # << >> /\ s[Len(s)] \in chars
    THEN RStrip(SubSeq(s, 1, Len(s) - 1), chars) ELSE s

Strip(s, chars) == RStrip(LStrip(s, chars), chars)

Whitespace == {" ", "\n", "\t"}
Quotes == {"\"", "'"}

\* str(i) for the small numbers of the model
NumStr(i) ==
    CASE i = 1 -> "1" [] i = 2 -> "2" [] i = 3 -> "3" [] i = 4 -> "4"
      [] i = 5 -> "5" [] i = 6 -> "6" [] OTHER -> "7+"

----------------------------------------------------------------------------
(* config/settings.py, config/prompts.py *)

DEFAULT_MODEL == "gpt-4o"
DEFAULT_TEMPERATURE == "0.7"
MAX_TOKENS == 1500

SYSTEM_PROMPTS ==
    [d1_no_history       |-> <<"You are a helpful assistant.">>,
     d2_with_history     |-> <<"You are a helpful assistant engaged in an ongoing conversation.">>,
     d3_rag_no_history   |-> <<"You are a helpful assistant with access to real-time search results.">>,
     d4_rag_with_history |-> <<"You are a helpful assistant with access to both conversation history and real-time search results.">>]

\* QUERY_ENHANCEMENT_PROMPT.format(history=..., current_question=...)
QUERY_ENHANCEMENT_PROMPT(history, current_question) ==
    <<"Given the conversation history and current question, [...]\n\nConversation History:\n">>
    \o history
    \o <<"\n\nCurrent Question:\n">>
    \o current_question
    \o <<"\n\nGenerate a comprehensive search query [...]\n\nEnhanced Search Query:">>

----------------------------------------------------------------------------
(* The providers: what a call to one may answer *)

\* the error messages of the language-model provider
LLMErrors == {<<"429 rate limit">>, <<"connection reset">>}

\* a reply that no call received: what a reply is when the run issues no
\* call that would consume it
NotAsked == [ok |-> FALSE, kind |-> "not asked", msg |-> <<"no call was issued">>]

\* client.chat.completions.create: the generated text with its token counts,
\* or an exception
LLMOutcomes ==
    {[ok |-> TRUE, content |-> <<"answer A">>,
      usage |-> [prompt_tokens |-> 10, completion_tokens |-> 5, total_tokens |-> 15]],
     [ok |-> TRUE, content |-> <<" ", "\"", "knee pain exercise", "\"", "\n">>,
      usage |-> [prompt_tokens |-> 20, completion_tokens |-> 7, total_tokens |-> 27]]}
    \cup {[ok |-> FALSE, kind |-> "APIError", msg |-> m] : m \in LLMErrors}

\* the i-th result of a search backend's reply; a backend may leave fields out
RawResult(i) ==
    CASE i = 1 -> [title |-> <<"Knee exercises">>, content |-> <<"Swimming helps.">>,
                   description |-> <<"About swimming">>,
                   url |-> <<"http://a.example">>, score |-> "0.9"]
      [] i = 2 -> [url |-> <<"http://b.example">>]
      [] i = 3 -> [title |-> <<"Osteoarthritis">>, description |-> <<"Overview">>,
                   score |-> "0.4"]
      [] OTHER -> [title |-> <<"Result ", NumStr(i)>>, content |-> <<"Text">>,
                   description |-> <<"Text">>, url |-> <<"http://c.example">>]

\* requests.post / requests.get with raise_for_status() and response.json():
\* the results of the reply, a requests.exceptions.RequestException, or
\* another exception
SearchOutcomes ==
    {[ok |-> TRUE, results |-> [i \in 1..n |-> RawResult(i)]] :
        n \in 0..MaxProviderResults}
    \cup {[ok |-> FALSE, kind |-> "RequestException", msg |-> <<"read timed out">>],
          [ok |-> FALSE, kind |-> "Exception", msg |-> <<"Expecting value">>]}

\* the JSON body of a Tavily reply, of a Brave reply
TavilyBody(out) == [results |-> out.results, answer |-> <<"short answer">>]
BraveBody(out) == [web |-> [results |-> out.results]]

----------------------------------------------------------------------------
(* src/llm_handler.py *)

Message(role, content) == [role |-> role, content |-> content]

\* the two shapes of generate_response's `messages` argument
Str(text) == [type |-> "str", v |-> text]
List(msgs) == [type |-> "list", v |-> msgs]

LLMHandler(model, temperature) == [model |-> model, temperature |-> temperature]

\* generate_response calling the provider a second time when the first call
\* fails (mutant of generate_response)
generate_response_retries(self, messages, system_prompt, out) ==
    LET formatted_messages ==
            (IF system_prompt # << >>
             THEN <<Message("system", system_prompt)>> ELSE << >>)
            \o (IF messages.type = "str" THEN <<Message("user", messages.v)>>
                ELSE IF messages.type = "list" THEN messages.v
                ELSE << >>)
        call == [api |-> "chat.completions.create",
                 request |-> [model |-> self.model,
                              messages |-> formatted_messages,
                              temperature |-> self.temperature,
                              max_tokens |-> MAX_TOKENS],
                 reply |-> out]
    IN  IF out.ok
        THEN Returns([response |-> out.content,
                      model |-> self.model,
                      usage |-> out.usage], <<call>>)
        ELSE Raises(<<"LLM generation failed: ">> \o out.msg, <<call, call>>)

\* system_prompt = << >> stands for None: `if system_prompt:` skips both
generate_response(self, messages, system_prompt, out) ==
    LET formatted_messages ==
            (IF system_prompt # << >>
             THEN <<Message("system", system_prompt)>> ELSE << >>)
            \o (IF messages.type = "str" THEN <<Message("user", messages.v)>>
                ELSE IF messages.type = "list" THEN messages.v
                ELSE << >>)
        call == [api |-> "chat.completions.create",
                 request |-> [model |-> self.model,
                              messages |-> formatted_messages,
                              temperature |-> self.temperature,
                              max_tokens |-> MAX_TOKENS],
                 reply |-> out]
    IN  IF out.ok
        THEN Returns([response |-> out.content,
                      model |-> self.model,
                      usage |-> out.usage], <<call>>)
        ELSE Raises(<<"LLM generation failed: ">> \o out.msg, <<call>>)

\* generate_d1_response with the with-history prompt (mutant of
\* generate_d1_response)
generate_d1_response_d2_prompt(self, question, out) ==
    generate_response(self, Str(question), SYSTEM_PROMPTS.d2_with_history, out)

generate_d1_response(self, question, out) ==
    generate_response(self, Str(question), SYSTEM_PROMPTS.d1_no_history, out)

\* the roles with the parity taken of an index counted from 1 (mutant of
\* HistoryRole)
HistoryRole_from_one(i) == IF i % 2 = 0 THEN "user" ELSE "assistant"

\* the role of history entry i, i counted from 1 here and from 0 in the code
HistoryRole(i) == IF (i - 1) % 2 = 0 THEN "user" ELSE "assistant"

HistoryMessages(history) ==
    [i \in 1..Len(history) |-> Message(HistoryRole(i), history[i])]

generate_d2_response(self, history, question, out) ==
    LET messages == HistoryMessages(history) \o <<Message("user", question)>>
    IN  generate_response(self, List(messages), SYSTEM_PROMPTS.d2_with_history, out)

\* a limit that lets a sixth entry through
FORMAT_LIMIT_off_by_one == 5 + 1
FORMAT_LIMIT == 5

\* _format_search_results without the guard on an empty list: joining no
\* entries gives the empty string
_format_search_results_no_marker(search_results) ==
    LET shown == SubSeq(search_results, 1,
                        IF Len(search_results) < 5 THEN Len(search_results) ELSE 5)
        entry(i) == <<NumStr(i), ". ">> \o Get(shown[i], "title", <<"No title">>)
                    \o <<"\n   ">>
                    \o Get(shown[i], "content", Get(shown[i], "snippet", <<"No content">>))
                    \o <<"\n   Source: ">> \o Get(shown[i], "url", << >>) \o <<"\n">>
    IN  Join(<<"\n">>, [i \in 1..Len(shown) |-> entry(i)])

_format_search_results(search_results) ==
    IF search_results = << >> THEN <<"No search results available.">>
    ELSE LET shown == SubSeq(search_results, 1,
                             IF Len(search_results) < FORMAT_LIMIT
                             THEN Len(search_results) ELSE FORMAT_LIMIT)
             entry(i) ==
                 LET result == shown[i]
                     title == Get(result, "title", <<"No title">>)
                     content == Get(result, "content",
                                    Get(result, "snippet", <<"No content">>))
                     url == Get(result, "url", << >>)
                 IN  <<NumStr(i), ". ">> \o title \o <<"\n   ">> \o content
                     \o <<"\n   Source: ">> \o url \o <<"\n">>
         IN  Join(<<"\n">>, [i \in 1..Len(shown) |-> entry(i)])

generate_d3_response(self, question, search_results, out) ==
    LET search_context == _format_search_results(search_results)
        message == <<"Search Results:\n">> \o search_context
                   \o <<"\n\nQuestion: ">> \o question
    IN  generate_response(self, Str(message), SYSTEM_PROMPTS.d3_rag_no_history, out)

\* generate_d4_response with the search context placed before the history
generate_d4_response_hoists_context(self, history, question, search_results, out) ==
    LET search_context == _format_search_results(search_results)
        messages == <<Message("system", <<"Search Results:\n">> \o search_context)>>
                    \o HistoryMessages(history)
                    \o <<Message("user", question)>>
    IN  generate_response(self, List(messages), SYSTEM_PROMPTS.d4_rag_with_history, out)

generate_d4_response(self, history, question, search_results, out) ==
    LET search_context == _format_search_results(search_results)
        messages == HistoryMessages(history)
                    \o <<Message("system", <<"Search Results:\n">> \o search_context)>>
                    \o <<Message("user", question)>>
    IN  generate_response(self, List(messages), SYSTEM_PROMPTS.d4_rag_with_history, out)

----------------------------------------------------------------------------
(* src/search_handler.py *)

\* engine.lower() on the engine names of the model
Lower(engine) ==
    CASE engine = "Tavily" -> "tavily"
      [] engine = "BRAVE" -> "brave"
      [] OTHER -> engine

IsStr(v) == v \notin {PyNone, PyInt}

SearchHandler(engine, api_key) ==
    IF ~IsStr(engine)
    THEN Raises(<<"object has no attribute 'lower'">>, << >>)
    ELSE IF ~Truthy(api_key) /\ engine \in {"tavily", "brave"}
    THEN Raises(<<"API key required for ", engine, " search engine">>, << >>)
    ELSE Returns([engine |-> Lower(engine), api_key |-> api_key], << >>)

\* a normalization that fills a missing title with a placeholder
TavilyResult_placeholder_title(result) ==
    [title |-> Get(result, "title", <<"No title">>),
     content |-> Get(result, "content", << >>),
     url |-> Get(result, "url", << >>),
     score |-> Get(result, "score", "0")]

\* the normalized record of one Tavily result, of one Brave result
TavilyResult(result) ==
    [title |-> Get(result, "title", << >>),
     content |-> Get(result, "content", << >>),
     url |-> Get(result, "url", << >>),
     score |-> Get(result, "score", "0")]

BraveResult(result) ==
    [title |-> Get(result, "title", << >>),
     content |-> Get(result, "description", << >>),
     url |-> Get(result, "url", << >>),
     score |-> "1.0"]

_search_tavily(self, query, max_results, out) ==
    LET call == [api |-> "POST https://api.tavily.com/search",
                 request |-> [api_key |-> self.api_key, query |-> query,
                              max_results |-> max_results],
                 reply |-> out]
    IN  IF ~out.ok
        THEN IF out.kind = "RequestException"
             THEN Raises(<<"Tavily search failed: ">> \o out.msg, <<call>>)
             ELSE Raises(<<"Tavily search error: ">> \o out.msg, <<call>>)
        ELSE LET data == TavilyBody(out)
                 raw == Get(data, "results", << >>)
             IN  Returns([results |-> [i \in 1..Len(raw) |-> TavilyResult(raw[i])],
                          query |-> query,
                          engine |-> "tavily",
                          answer |-> Get(data, "answer", << >>)], <<call>>)

_search_brave(self, query, max_results, out) ==
    LET call == [api |-> "GET https://api.search.brave.com/res/v1/web/search",
                 request |-> [api_key |-> self.api_key, query |-> query,
                              max_results |-> max_results],
                 reply |-> out]
    IN  IF ~out.ok
        THEN IF out.kind = "RequestException"
             THEN Raises(<<"Brave search failed: ">> \o out.msg, <<call>>)
             ELSE Raises(<<"Brave search error: ">> \o out.msg, <<call>>)
        ELSE LET data == BraveBody(out)
                 raw == Get(Get(data, "web", << >>), "results", << >>)
             IN  Returns([results |-> [i \in 1..Len(raw) |-> BraveResult(raw[i])],
                          query |-> query,
                          engine |-> "brave"], <<call>>)

search(self, query, max_results, out) ==
    IF self.engine = "tavily" THEN _search_tavily(self, query, max_results, out)
    ELSE IF self.engine = "brave" THEN _search_brave(self, query, max_results, out)
    ELSE Raises(<<"Unsupported search engine: ", self.engine>>, << >>)

search_with_fallback(self, query, max_results, out) ==
    LET primary == search(self, query, max_results, out)
    IN  IF ~primary.raised THEN primary
        ELSE IF ~Truthy(self.api_key)
        THEN Returns([results |-> << >>,
                      query |-> query,
                      engine |-> "none",
                      error |-> <<"No search API key provided">>], primary.calls)
        ELSE primary

----------------------------------------------------------------------------
(* src/query_enhancer.py *)

\* enhance_query without its fallback: the provider's failure is raised
\* (mutant of enhance_query)
enhance_query_raises(llm_handler, conversation_history, current_question, out) ==
    LET history_text ==
            Join(<<"\n">>, [i \in 1..Len(conversation_history) |->
                               <<"- ">> \o conversation_history[i]])
        prompt == QUERY_ENHANCEMENT_PROMPT(history_text, current_question)
        result == generate_response(llm_handler, Str(prompt), << >>, out)
    IN  IF result.raised
        THEN Raises(<<"Query enhancement failed: ">> \o result.exc, result.calls)
        ELSE Returns([original_question |-> current_question,
                      enhanced_query |->
                          Strip(Strip(result.value.response, Whitespace), Quotes),
                      history_length |-> Len(conversation_history)],
                     result.calls)

\* message.content of a completion that carries no text (None)
NoneContent == <<PyNone>>

\* an except clause that returns the record without the fallback query
enhance_query_except_no_fallback(conversation_history, current_question, exc, cs) ==
    Returns([original_question |-> current_question,
             enhanced_query |-> << >>,
             history_length |-> Len(conversation_history),
             error |-> <<"Query enhancement failed: ">> \o exc], cs)

\* the except clause of enhance_query
enhance_query_except(conversation_history, current_question, exc, cs) ==
    Returns([original_question |-> current_question,
             enhanced_query |-> current_question,
             history_length |-> Len(conversation_history),
             error |-> <<"Query enhancement failed: ">> \o exc], cs)

enhance_query(llm_handler, conversation_history, current_question, out) ==
    LET history_text ==
            Join(<<"\n">>, [i \in 1..Len(conversation_history) |->
                               <<"- ">> \o conversation_history[i]])
        prompt == QUERY_ENHANCEMENT_PROMPT(history_text, current_question)
        result == generate_response(llm_handler, Str(prompt), << >>, out)
    IN  IF result.raised
        THEN enhance_query_except(conversation_history, current_question,
                                  result.exc, result.calls)
        ELSE IF result.value.response = NoneContent
        THEN enhance_query_except(conversation_history, current_question,
                                  <<"'NoneType' object has no attribute 'strip'">>,
                                  result.calls)
        ELSE Returns([original_question |-> current_question,
                      enhanced_query |->
                          Strip(Strip(result.value.response, Whitespace), Quotes),
                      history_length |-> Len(conversation_history)],
                     result.calls)

----------------------------------------------------------------------------
(* src/evaluator.py, and LLMHandler.evaluate_response which it calls *)

\* In _calculate_focus_coverage a str is a Text of single characters.

\* c.lower() for the characters of the texts below
LowerChar(c) ==
    CASE c = "D" -> "d" [] c = "K" -> "k" [] c = "M" -> "m"
      [] c = "R" -> "r" [] c = "I" -> "i" [] c = "V" -> "v"
      [] OTHER -> c

LowerText(s) == [i \in 1..Len(s) |-> LowerChar(s[i])]

\* sub in s
Contains(sub, s) ==
    \E i \in 0..(Len(s) - Len(sub)) :
        \A k \in 1..Len(sub) : s[i + k] = sub[k]

\* the words of s.split(): the longest runs of characters without whitespace
SplitWords(s) ==
    {SubSeq(s, i, j) :
        <<i, j>> \in {p \in (1..Len(s)) \X (1..Len(s)) :
                        /\ p[1] <= p[2]
                        /\ \A k \in p[1]..p[2] : s[k] \notin Whitespace
                        /\ (p[1] = 1 \/ s[p[1] - 1] \in Whitespace)
                        /\ (p[2] = Len(s) \/ s[p[2] + 1] \in Whitespace)}}

RECURSIVE SumOf(_)
SumOf(numbers) ==
    IF numbers = << >> THEN 0 ELSE Head(numbers) + SumOf(Tail(numbers))

\* A coverage is the fraction <<numerator, denominator>>; covered_areas is
\* counted in halves, so that += 1 adds 2 and += 0.5 adds 1.

\* a coverage that counts the partial match of a term on top of its full
\* match
_calculate_focus_coverage_double_counts(response, expected_focus) ==
    IF expected_focus = << >> THEN <<0, 1>>
    ELSE LET response_lower == LowerText(response)
             halves(focus_area) ==
                 (IF Contains(LowerText(focus_area), response_lower) THEN 2 ELSE 0)
                 + (IF \E word \in SplitWords(LowerText(focus_area)) :
                          Len(word) > 3 /\ Contains(word, response_lower)
                    THEN 1 ELSE 0)
         IN  <<SumOf([i \in 1..Len(expected_focus) |-> halves(expected_focus[i])]),
               2 * Len(expected_focus)>>

_calculate_focus_coverage(response, expected_focus) ==
    IF expected_focus = << >> THEN <<0, 1>>
    ELSE LET response_lower == LowerText(response)
             halves(focus_area) ==
                 IF Contains(LowerText(focus_area), response_lower) THEN 2
                 ELSE IF \E word \in SplitWords(LowerText(focus_area)) :
                            Len(word) > 3 /\ Contains(word, response_lower)
                 THEN 1 ELSE 0
         IN  <<SumOf([i \in 1..Len(expected_focus) |-> halves(expected_focus[i])]),
               2 * Len(expected_focus)>>

\* EVALUATION_PROMPT.format(question=..., history=..., response=...): the
\* template holds a literal JSON object in single braces, which str.format
\* reads as a replacement field named '\n    "relevance"'; the call raises
\* KeyError for every argument. It stands outside the try block of
\* LLMHandler.evaluate_response, so that method raises before it calls the
\* provider.
llm_evaluate_response(self, question, history, response) ==
    Raises(<<"'\\n    \"relevance\"'">>, << >>)

_llm_evaluation(llm_handler, scen, response_data) ==
    LET evaluation == llm_evaluate_response(llm_handler, scen.current_question,
                          Get(scen, "conversation_history", << >>),
                          response_data.response)
    IN  IF evaluation.raised
        THEN Returns([error |-> <<"LLM evaluation failed: ">> \o evaluation.exc],
                     evaluation.calls)
        ELSE evaluation

\* ResponseEvaluator.evaluate_response, without the timestamp and the
\* automated metrics, which are functions of the response text alone
evaluate_response(llm_handler, scen, response_data, m) ==
    IF "error" \in DOMAIN response_data
    THEN [scenario_id |-> scen.id, domain |-> scen.domain, method |-> m,
          has_error |-> TRUE]
    ELSE [scenario_id |-> scen.id, domain |-> scen.domain, method |-> m,
          has_error |-> FALSE,
          llm_evaluation |-> _llm_evaluation(llm_handler, scen, response_data).value]

\* ResponseEvaluator.compare_responses; of the comparison metrics only the
\* number of error records behind error_rate is kept
compare_responses(llm_handler, scen, all_responses) ==
    LET evaluations == [m \in DOMAIN all_responses |->
                           evaluate_response(llm_handler, scen, all_responses[m], m)]
    IN  [scenario_id |-> scen.id,
         domain |-> scen.domain,
         evaluations |-> evaluations,
         error_count |-> Cardinality({m \in DOMAIN evaluations :
                                         evaluations[m].has_error})]

----------------------------------------------------------------------------
(* src/experiments/experiment_runner.py *)

NoHandler == [none |-> TRUE]
EmptyDict == << >>

\* ExperimentRunner.__init__: a SearchHandler that fails to construct is
\* reported on stdout and the runner is left without one
ExperimentRunner(tavily_key, search_engine, temperature, max_results) ==
    LET handler == SearchHandler(search_engine, tavily_key)
    IN  Returns([llm_handler |-> LLMHandler(DEFAULT_MODEL, temperature),
                 search_handler |->
                     IF Truthy(tavily_key) /\ Truthy(search_engine) /\ ~handler.raised
                     THEN handler.value ELSE NoHandler,
                 max_results |-> max_results], << >>)

\* In the strategies below ts is datetime.now().isoformat(), and cs are the
\* provider calls issued so far.

\* an except clause that reports a failure without the exception's message
run_d1_except_generic(exc, ts, cs) ==
    Returns([method |-> "D1_LLM_ONLY", error |-> <<"generation failed">>,
             timestamp |-> ts], cs)

\* the except clause of run_d1
run_d1_except(exc, ts, cs) ==
    Returns([method |-> "D1_LLM_ONLY", error |-> exc, timestamp |-> ts], cs)

run_d1(self, question, ts, g_out) ==
    LET result == generate_d1_response(self.llm_handler, question, g_out)
    IN  IF result.raised
        THEN run_d1_except(result.exc, ts, result.calls)
        ELSE Returns([method |-> "D1_LLM_ONLY",
                      response |-> result.value.response,
                      usage |-> result.value.usage,
                      timestamp |-> ts], result.calls)

\* the except clause of run_d2
run_d2_except(exc, ts, cs) ==
    Returns([method |-> "D2_LLM_WITH_HISTORY", error |-> exc, timestamp |-> ts], cs)

run_d2(self, conversation_history, question, ts, g_out) ==
    LET result == generate_d2_response(self.llm_handler, conversation_history,
                                       question, g_out)
    IN  IF result.raised
        THEN run_d2_except(result.exc, ts, result.calls)
        ELSE Returns([method |-> "D2_LLM_WITH_HISTORY",
                      response |-> result.value.response,
                      usage |-> result.value.usage,
                      history_length |-> Len(conversation_history),
                      timestamp |-> ts], result.calls)

\* the search step without its `if self.search_handler:` guard: None.search
\* raises AttributeError (mutant of run_search)
run_search_unguarded(self, query, s_out) ==
    IF self.search_handler # NoHandler
    THEN search(self.search_handler, query, self.max_results, s_out)
    ELSE Raises(<<"'NoneType' object has no attribute 'search'">>, << >>)

\* the search step swallowing a failed search and going on with no results
\* (mutant of run_search)
run_search_degrades(self, query, s_out) ==
    LET searched == IF self.search_handler # NoHandler
                    THEN search(self.search_handler, query, self.max_results, s_out)
                    ELSE Returns(EmptyDict, << >>)
    IN  IF searched.raised THEN Returns(EmptyDict, searched.calls) ELSE searched

\* the search step of run_d3 and of run_d4: search_data, {} without a handler
run_search(self, query, s_out) ==
    IF self.search_handler # NoHandler
    THEN search(self.search_handler, query, self.max_results, s_out)
    ELSE Returns(EmptyDict, << >>)

\* the except clause of run_d3
run_d3_except(exc, ts, cs) ==
    Returns([method |-> "D3_RAG_CURRENT_ONLY", error |-> exc, timestamp |-> ts], cs)

run_d3(self, question, ts, s_out, g_out) ==
    LET searched == run_search(self, question, s_out)
    IN  IF searched.raised
        THEN run_d3_except(searched.exc, ts, searched.calls)
        ELSE
        LET search_data == searched.value
            search_results == Get(search_data, "results", << >>)
            result == generate_d3_response(self.llm_handler, question,
                                           search_results, g_out)
            issued == searched.calls \o result.calls
        IN  IF result.raised
            THEN run_d3_except(result.exc, ts, issued)
            ELSE Returns([method |-> "D3_RAG_CURRENT_ONLY",
                          response |-> result.value.response,
                          usage |-> result.value.usage,
                          search_results |-> search_results,
                          search_query |-> question,
                          search_engine |-> Get(search_data, "engine", "none"),
                          timestamp |-> ts], issued)

\* run_d4 with its except clause re-raising (mutant of run_d4_except)
run_d4_except_reraises(exc, ts, cs) == Raises(exc, cs)

\* run_d4 with an except clause that also fills in an empty response (mutant
\* of run_d4_except)
run_d4_except_with_response(exc, ts, cs) ==
    Returns([method |-> "D4_RAG_WITH_HISTORY", response |-> << >>,
             error |-> exc, timestamp |-> ts], cs)

\* the except clause of run_d4
run_d4_except(exc, ts, cs) ==
    Returns([method |-> "D4_RAG_WITH_HISTORY", error |-> exc, timestamp |-> ts], cs)

\* run_d4's record with the question as search_query, as in run_d3 (mutant
\* of run_d4_record)
run_d4_record_question_as_query(conversation_history, question, query_data, search_data, result, ts) ==
    [method |-> "D4_RAG_WITH_HISTORY",
     response |-> result.response,
     usage |-> result.usage,
     search_results |-> Get(search_data, "results", << >>),
     search_query |-> question,
     original_question |-> question,
     query_enhancement |-> query_data,
     history_length |-> Len(conversation_history),
     search_engine |-> Get(search_data, "engine", "none"),
     timestamp |-> ts]

\* the record run_d4 returns when nothing raised
run_d4_record(conversation_history, question, query_data, search_data, result, ts) ==
    [method |-> "D4_RAG_WITH_HISTORY",
     response |-> result.response,
     usage |-> result.usage,
     search_results |-> Get(search_data, "results", << >>),
     search_query |-> query_data.enhanced_query,
     original_question |-> question,
     query_enhancement |-> query_data,
     history_length |-> Len(conversation_history),
     search_engine |-> Get(search_data, "engine", "none"),
     timestamp |-> ts]

\* run_d4 searching for the question, as run_d3 does, and not for the enhanced
\* query (mutant of run_d4)
run_d4_searches_question(self, conversation_history, question, ts, e_out, s_out, g_out) ==
    LET enhanced == enhance_query(self.llm_handler, conversation_history,
                                  question, e_out)
    IN  IF enhanced.raised
        THEN run_d4_except(enhanced.exc, ts, enhanced.calls)
        ELSE
        LET query_data == enhanced.value
            searched == run_search(self, question, s_out)
        IN  IF searched.raised
            THEN run_d4_except(searched.exc, ts, enhanced.calls \o searched.calls)
            ELSE
            LET search_data == searched.value
                search_results == Get(search_data, "results", << >>)
                result == generate_d4_response(self.llm_handler, conversation_history,
                                               question, search_results, g_out)
                issued == enhanced.calls \o searched.calls \o result.calls
            IN  IF result.raised
                THEN run_d4_except(result.exc, ts, issued)
                ELSE Returns(run_d4_record(conversation_history, question, query_data,
                                           search_data, result.value, ts), issued)

run_d4(self, conversation_history, question, ts, e_out, s_out, g_out) ==
    LET enhanced == enhance_query(self.llm_handler, conversation_history,
                                  question, e_out)
    IN  IF enhanced.raised
        THEN run_d4_except(enhanced.exc, ts, enhanced.calls)
        ELSE
        LET query_data == enhanced.value
            enhanced_query == query_data.enhanced_query
            searched == run_search(self, enhanced_query, s_out)
        IN  IF searched.raised
            THEN run_d4_except(searched.exc, ts, enhanced.calls \o searched.calls)
            ELSE
            LET search_data == searched.value
                search_results == Get(search_data, "results", << >>)
                result == generate_d4_response(self.llm_handler, conversation_history,
                                               question, search_results, g_out)
                issued == enhanced.calls \o searched.calls \o result.calls
            IN  IF result.raised
                THEN run_d4_except(result.exc, ts, issued)
                ELSE Returns(run_d4_record(conversation_history, question, query_data,
                                           search_data, result.value, ts), issued)

\* run_all_methods that gives up at the first strategy whose record is an
\* error
run_all_methods_stops_at_failure(self, scen, ts, replies) ==
    LET question == scen.current_question
        history == Get(scen, "conversation_history", << >>)
        d1 == run_d1(self, question, ts, replies.d1_g)
        d2 == run_d2(self, history, question, ts + 1, replies.d2_g)
        d3 == run_d3(self, question, ts + 2, replies.d3_s, replies.d3_g)
        d4 == run_d4(self, history, question, ts + 3,
                     replies.d4_e, replies.d4_s, replies.d4_g)
    IN  IF "error" \in DOMAIN d1.value
        THEN Returns([D1 |-> d1.value], d1.calls)
        ELSE IF "error" \in DOMAIN d2.value
        THEN Returns([D1 |-> d1.value, D2 |-> d2.value], d1.calls \o d2.calls)
        ELSE IF "error" \in DOMAIN d3.value
        THEN Returns([D1 |-> d1.value, D2 |-> d2.value, D3 |-> d3.value],
                     d1.calls \o d2.calls \o d3.calls)
        ELSE Returns([D1 |-> d1.value, D2 |-> d2.value,
                      D3 |-> d3.value, D4 |-> d4.value],
                     d1.calls \o d2.calls \o d3.calls \o d4.calls)

\* replies holds the reply to each provider call the four runs may issue;
\* each run reads the clock once, so run i of the four is stamped ts + i - 1
run_all_methods(self, scen, ts, replies) ==
    IF "current_question" \notin DOMAIN scen
    THEN Raises(<<"KeyError: 'current_question'">>, << >>)
    ELSE
    LET question == scen.current_question
        history == Get(scen, "conversation_history", << >>)
        d1 == run_d1(self, question, ts, replies.d1_g)
        d2 == run_d2(self, history, question, ts + 1, replies.d2_g)
        d3 == run_d3(self, question, ts + 2, replies.d3_s, replies.d3_g)
        d4 == run_d4(self, history, question, ts + 3,
                     replies.d4_e, replies.d4_s, replies.d4_g)
    IN  IF d1.raised THEN d1
        ELSE IF d2.raised THEN Raises(d2.exc, d1.calls \o d2.calls)
        ELSE IF d3.raised THEN Raises(d3.exc, d1.calls \o d2.calls \o d3.calls)
        ELSE IF d4.raised
        THEN Raises(d4.exc, d1.calls \o d2.calls \o d3.calls \o d4.calls)
        ELSE Returns([D1 |-> d1.value, D2 |-> d2.value,
                      D3 |-> d3.value, D4 |-> d4.value],
                     d1.calls \o d2.calls \o d3.calls \o d4.calls)

\* methods=None of run_experiment_batch
NoMethods == {PyNone}

\* the position of a strategy among the four, in the order the batch runs them
MethodOrder(m) == CASE m = "D1" -> 1 [] m = "D2" -> 2 [] m = "D3" -> 3 [] OTHER -> 4

\* a loop body that leaves the scenario at the first strategy whose record
\* is an error
run_experiment_batch_body_stops_at_failure(self, scen, methods, ts, replies) ==
    LET question == scen.current_question
        history == Get(scen, "conversation_history", << >>)
        selected == IF methods = NoMethods THEN {"D1", "D2", "D3", "D4"} ELSE methods
        outcome(m) ==
            CASE m = "D1" -> run_d1(self, question, ts + 1, replies.d1_g)
              [] m = "D2" -> run_d2(self, history, question, ts + 2, replies.d2_g)
              [] m = "D3" -> run_d3(self, question, ts + 3, replies.d3_s, replies.d3_g)
              [] OTHER -> run_d4(self, history, question, ts + 4,
                                 replies.d4_e, replies.d4_s, replies.d4_g)
        failed == {m \in selected : "error" \in DOMAIN outcome(m).value}
        ran == {m \in selected :
                   \A f \in failed : MethodOrder(m) <= MethodOrder(f)}
        results == [m \in ran |-> outcome(m).value]
    IN  [entry |-> [scenario_id |-> scen.id,
                    domain |-> scen.domain,
                    timestamp |-> ts,
                    results |-> results,
                    evaluation |-> compare_responses(self.llm_handler, scen, results)],
         calls_of |-> [m \in {"D1", "D2", "D3", "D4"} |->
                          IF m \in ran THEN outcome(m).calls ELSE << >>]]

\* The body of the loop of run_experiment_batch for one scenario: the entry
\* appended to all_results, and the provider calls each strategy issued.
\* The clock is read at ts for the entry and once by each strategy run.
run_experiment_batch_body(self, scen, methods, ts, replies) ==
    LET question == scen.current_question
        history == Get(scen, "conversation_history", << >>)
        selected == IF methods = NoMethods THEN {"D1", "D2", "D3", "D4"} ELSE methods
        outcome(m) ==
            CASE m = "D1" -> run_d1(self, question, ts + 1, replies.d1_g)
              [] m = "D2" -> run_d2(self, history, question, ts + 2, replies.d2_g)
              [] m = "D3" -> run_d3(self, question, ts + 3, replies.d3_s, replies.d3_g)
              [] OTHER -> run_d4(self, history, question, ts + 4,
                                 replies.d4_e, replies.d4_s, replies.d4_g)
        ran == selected \cap {"D1", "D2", "D3", "D4"}
        results == [m \in ran |-> outcome(m).value]
    IN  [entry |-> [scenario_id |-> scen.id,
                    domain |-> scen.domain,
                    timestamp |-> ts,
                    results |-> results,
                    evaluation |-> compare_responses(self.llm_handler, scen, results)],
         calls_of |-> [m \in {"D1", "D2", "D3", "D4"} |->
                          IF m \in ran THEN outcome(m).calls ELSE << >>]]

----------------------------------------------------------------------------
(* src/utils/helpers.py: the results file                                  *)
(*                                                                         *)
(* The file is absent, or holds a JSON document, or holds text that is not *)
(* JSON, or holds bytes that are not UTF-8. A JSON document is the value   *)
(* json.load gives for it: an array is a list, an object is a dict.        *)

Dict(d) == [type |-> "dict", items |-> d]

JsonFile(value) == [kind |-> "json", doc |-> value]
NotJsonFile == [kind |-> "text"]
NotUtf8File == [kind |-> "bytes"]

\* os.path.exists(RESULTS_FILE)
exists(file) == file.kind # "absent"

\* with open(RESULTS_FILE, 'r', encoding='utf-8') as f: json.load(f)
json_load(file) ==
    CASE file.kind = "json" -> Returns(file.doc, << >>)
      [] file.kind = "text" -> Raises(<<"JSONDecodeError">>, << >>)
      [] file.kind = "bytes" -> Raises(<<"UnicodeDecodeError">>, << >>)

\* with open(RESULTS_FILE, 'w', encoding='utf-8') as f: json.dump(value, f, ...)
\* of a value made of dicts with str keys, lists, strs, ints and booleans
json_dump(value) == JsonFile(value)

\* the existing results that save_results starts from
existing_results(file) ==
    IF ~exists(file)
    THEN Returns(List(<< >>), << >>)
    ELSE LET loaded == json_load(file)
         IN  IF loaded.raised /\ loaded.exc = <<"JSONDecodeError">>
             THEN Returns(List(<< >>), << >>)
             ELSE loaded

\* save_results that keeps only what it is given
save_results_overwrites(file, results) ==
    json_dump(List(IF results.type = "list" THEN results.v ELSE <<results.items>>))

\* save_results(results): the file it leaves. It returns None and lets no
\* exception out.
save_results(file, results) ==
    LET existing == existing_results(file)
    IN  IF existing.raised
        THEN file
        ELSE IF existing.value.type # "list"
        THEN file
        ELSE json_dump(List(IF results.type = "list"
                            THEN existing.value.v \o results.v
                            ELSE Append(existing.value.v, results.items)))

\* load_results()
load_results(file) ==
    IF exists(file)
    THEN LET loaded == json_load(file)
         IN  IF loaded.raised THEN Returns(List(<< >>), << >>) ELSE loaded
    ELSE Returns(List(<< >>), << >>)

----------------------------------------------------------------------------
(* src/app.py: the run loop of the dashboard                               *)

\* the options of "Select Methods to Compare"
AppMethods ==
    {"D1: LLM-only (no history)", "D2: LLM with history",
     "D3: RAG (current question)", "D4: RAG with history"}

\* method.startswith("D1"), ...
StrategyOf(name) ==
    CASE name = "D1: LLM-only (no history)" -> "D1"
      [] name = "D2: LLM with history" -> "D2"
      [] name = "D3: RAG (current question)" -> "D3"
      [] name = "D4: RAG with history" -> "D4"

\* the strategy call of one pass of `for method in methods`
app_strategy(self, scen, name, ts, replies) ==
    CASE StrategyOf(name) = "D1" ->
             run_d1(self, scen.current_question, ts + 1, replies.d1_g)
      [] StrategyOf(name) = "D2" ->
             run_d2(self, scen.conversation_history, scen.current_question,
                    ts + 2, replies.d2_g)
      [] StrategyOf(name) = "D3" ->
             run_d3(self, scen.current_question, ts + 3, replies.d3_s, replies.d3_g)
      [] StrategyOf(name) = "D4" ->
             run_d4(self, scen.conversation_history, scen.current_question,
                    ts + 4, replies.d4_e, replies.d4_s, replies.d4_g)

\* str(e) of the exception that the try block raises after the strategy
\* call, "" if none: the strategy's own, or the KeyError of
\* result['response'] on a record without a response
app_exception(outcome) ==
    IF outcome.raised THEN outcome.exc
    ELSE IF "response" \notin DOMAIN outcome.value THEN <<"'response'">>
    ELSE << >>

\* the rest of the pass, the strategy having been called: what
\* scenario_results[method] is left as and what the page shows
app_shows(name, outcome) ==
    IF app_exception(outcome) = << >>
    THEN [result |-> outcome.value,
          stored |-> outcome.value,
          shown |-> [by |-> "st.write", text |-> outcome.value.response],
          calls |-> outcome.calls]
    ELSE [result |-> IF outcome.raised THEN NoRecord ELSE outcome.value,
          stored |-> [response |-> <<"Error: ">> \o app_exception(outcome),
                      error |-> TRUE],
          shown |-> [by |-> "st.error",
                     text |-> <<"Error running ", name, ": ">>
                                  \o app_exception(outcome)],
          calls |-> outcome.calls]

\* one pass of `for method in methods`
app_run_method(self, scen, name, ts, replies) ==
    CHOOSE pass \in {app_shows(name, outcome) :
                        outcome \in {app_strategy(self, scen, name, ts, replies)}} : TRUE

\* one pass of `for scenario in selected_scenario_data`: the entry appended
\* to all_results, with what each strategy returned and what the page shows
app_run_scenario(self, scen, methods, ts, replies) ==
    CHOOSE body \in
        {[entry |-> [timestamp |-> ts + 5,
                     scenario_id |-> scen.id,
                     domain |-> scen.domain,
                     results |-> [name \in methods |-> ran[name].stored]],
          result_of |-> [name \in methods |-> ran[name].result],
          shown |-> [name \in methods |-> ran[name].shown],
          calls_of |-> [name \in methods |-> ran[name].calls]] :
            ran \in {[name \in methods |->
                         app_run_method(self, scen, name, ts, replies)]}} : TRUE

----------------------------------------------------------------------------
(* The state machine: a runner is constructed, a scenario is loaded, and   *)
(* the callers (run_all_methods, run_experiment_batch, the scripts) run    *)
(* strategies on it one after the other.                                   *)

ApiKeys == {PyNone, "", "tvly-key"}
Engines == {PyNone, "tavily", "brave", "google", PyInt}
MaxResultsArgs == {1, 5}

\* the i-th utterance of the conversation the scenarios are cut from
Utterance(i) ==
    CASE i = 1 -> <<"I have joint pain">>
      [] i = 2 -> <<"Likely osteoarthritis">>
      [] i = 3 -> <<"It hurts on stairs">>
      [] OTHER -> <<"utterance ", NumStr(i)>>

Questions == {<<"What exercise helps knee pain?">>, <<"Is surgery needed?">>}

Scenarios ==
    [conversation_history : {[i \in 1..n |-> Utterance(i)] : n \in 0..MaxHist},
     current_question : Questions]

Init ==
    /\ ctor \in [tavily_key : ApiKeys, search_engine : Engines,
                 max_results : MaxResultsArgs]
    /\ runner = ExperimentRunner(ctor.tavily_key, ctor.search_engine,
                                 DEFAULT_TEMPERATURE, ctor.max_results).value
    /\ scenario \in Scenarios
    /\ now = 0
    /\ method = "none"
    /\ calls = << >>
    /\ returned = NoRecord
    /\ escaped = << >>
    /\ applied = "none"
    /\ applied_args = NoRecord
    /\ applied_result = NoRecord
    /\ store = AbsentFile

\* a strategy call that appends the question to the scenario's history
Ran_appends_question(name, outcome) ==
    /\ now < MaxRuns
    /\ now' = now + 1
    /\ method' = name
    /\ calls' = outcome.calls
    /\ returned' = (IF outcome.raised THEN NoRecord ELSE outcome.value)
    /\ escaped' = (IF outcome.raised THEN <<outcome.exc>> ELSE << >>)
    /\ scenario' = [scenario EXCEPT !.conversation_history =
                                        Append(@, scenario.current_question)]
    /\ UNCHANGED <<ctor, runner, applied, applied_args, applied_result, store>>

\* what a strategy call leaves behind: its record or the exception it let out
Ran(name, outcome) ==
    /\ now < MaxRuns
    /\ now' = now + 1
    /\ method' = name
    /\ calls' = outcome.calls
    /\ returned' = (IF outcome.raised THEN NoRecord ELSE outcome.value)
    /\ escaped' = (IF outcome.raised THEN <<outcome.exc>> ELSE << >>)
    /\ UNCHANGED <<ctor, runner, scenario, applied, applied_args, applied_result,
                   store>>

RunD1 ==
    \E g_out \in LLMOutcomes :
        Ran("D1", run_d1(runner, scenario.current_question, now, g_out))

RunD2 ==
    \E g_out \in LLMOutcomes :
        Ran("D2", run_d2(runner, scenario.conversation_history,
                         scenario.current_question, now, g_out))

\* The replies a run can receive. A reply is drawn for a call only when the
\* call can be issued: a search reply when the runner holds a handler of a
\* backend, a generation reply unless the search before it failed.
SearchReplies ==
    IF runner.search_handler # NoHandler
       /\ runner.search_handler.engine \in {"tavily", "brave"}
    THEN SearchOutcomes ELSE {NotAsked}

GenerationReplies(s_out) ==
    IF s_out.ok \/ s_out = NotAsked THEN LLMOutcomes ELSE {NotAsked}

RunD3 ==
    \E s_out \in SearchReplies :
        \E g_out \in GenerationReplies(s_out) :
            Ran("D3", run_d3(runner, scenario.current_question, now, s_out, g_out))

RunD4 ==
    \E e_out \in LLMOutcomes, s_out \in SearchReplies :
        \E g_out \in GenerationReplies(s_out) :
            Ran("D4", run_d4(runner, scenario.conversation_history,
                             scenario.current_question, now, e_out, s_out, g_out))

Next == RunD1 \/ RunD2 \/ RunD3 \/ RunD4

Spec == Init /\ [][Next]_vars

----------------------------------------------------------------------------
(* run_all_methods on one scenario. The scenario has its question; it has  *)
(* a history or none. Each of the seven provider calls of the four runs    *)
(* succeeds or fails on its own: one reply of each kind is drawn per call. *)

AllScenarios == Scenarios \cup {[current_question |-> q] : q \in Questions}

AllLLMReplies ==
    {o \in LLMOutcomes : IF o.ok THEN o.content = <<"answer A">>
                                 ELSE o.msg = <<"429 rate limit">>}

AllSearchReplies ==
    IF SearchReplies = {NotAsked} THEN {NotAsked}
    ELSE {o \in SearchOutcomes : IF o.ok THEN Len(o.results) = MaxProviderResults
                                          ELSE o.kind = "RequestException"}

AllGenerationReplies(s_out) ==
    IF s_out.ok \/ s_out = NotAsked THEN AllLLMReplies ELSE {NotAsked}

InitAll ==
    /\ ctor \in [tavily_key : {"tvly-key"}, search_engine : {PyNone, "tavily"},
                 max_results : {5}]
    /\ runner = ExperimentRunner(ctor.tavily_key, ctor.search_engine,
                                 DEFAULT_TEMPERATURE, ctor.max_results).value
    /\ scenario \in AllScenarios
    /\ now = 0
    /\ method = "none"
    /\ calls = << >>
    /\ returned = NoRecord
    /\ escaped = << >>
    /\ applied = "none"
    /\ applied_args = NoRecord
    /\ applied_result = NoRecord
    /\ store = AbsentFile

RunAllMethods ==
    /\ now < MaxRuns
    /\ \E d1_g \in AllLLMReplies, d2_g \in AllLLMReplies, d3_s \in AllSearchReplies,
          d4_e \in AllLLMReplies, d4_s \in AllSearchReplies :
         \E d3_g \in AllGenerationReplies(d3_s), d4_g \in AllGenerationReplies(d4_s) :
            LET outcome == run_all_methods(runner, scenario, now,
                               [d1_g |-> d1_g, d2_g |-> d2_g, d3_s |-> d3_s,
                                d3_g |-> d3_g, d4_e |-> d4_e, d4_s |-> d4_s,
                                d4_g |-> d4_g])
            IN  /\ now' = now + 4
                /\ method' = "ALL"
                /\ calls' = outcome.calls
                /\ returned' = (IF outcome.raised THEN NoRecord ELSE outcome.value)
                /\ escaped' = (IF outcome.raised THEN <<outcome.exc>> ELSE << >>)
    /\ UNCHANGED <<ctor, runner, scenario, applied, applied_args, applied_result,
                   store>>

NextAll == RunAllMethods

SpecAll == InitAll /\ [][NextAll]_vars

----------------------------------------------------------------------------
(* run_experiment_batch: the loop over the scenarios, one step per         *)
(* scenario, then the return. In each scenario at most one of the seven    *)
(* provider calls of the four strategies fails.                            *)

\* most scenarios in a batch
MaxBatch == 2

\* the i-th scenario of the scenario file; the ids are not in list order,
\* and the second scenario has no conversation history
BatchScenario(i) ==
    CASE i = 1 -> [id |-> 7, domain |-> "medical",
                   conversation_history |-> [k \in 1..MaxHist |-> Utterance(k)],
                   current_question |-> <<"What exercise helps knee pain?">>]
      [] OTHER -> [id |-> 7 - i, domain |-> "legal",
                   current_question |-> <<"Is surgery needed?">>]

BatchScenarioLists == {[i \in 1..n |-> BatchScenario(i)] : n \in 0..MaxBatch}

MethodSelections == {NoMethods, {"D1", "D3"}, {"D4"}}

\* the call that fails in a scenario: none (0), or the generation call of
\* D1, of D2, the search or the generation call of D3, the enhancement, the
\* search or the generation call of D4
FailingCalls == 0..7

ReplyOfLLM(fails) ==
    IF fails THEN [ok |-> FALSE, kind |-> "APIError", msg |-> <<"429 rate limit">>]
    ELSE CHOOSE o \in AllLLMReplies : o.ok

ReplyOfSearch(fails) ==
    IF SearchReplies = {NotAsked} THEN NotAsked
    ELSE IF fails THEN CHOOSE o \in AllSearchReplies : ~o.ok
    ELSE CHOOSE o \in AllSearchReplies : o.ok

BatchReplies(f) ==
    [d1_g |-> ReplyOfLLM(f = 1),
     d2_g |-> ReplyOfLLM(f = 2),
     d3_s |-> ReplyOfSearch(f = 3),
     d3_g |-> IF ReplyOfSearch(f = 3) \in {NotAsked} \cup {o \in SearchOutcomes : o.ok}
              THEN ReplyOfLLM(f = 4) ELSE NotAsked,
     d4_e |-> ReplyOfLLM(f = 5),
     d4_s |-> ReplyOfSearch(f = 6),
     d4_g |-> IF ReplyOfSearch(f = 6) \in {NotAsked} \cup {o \in SearchOutcomes : o.ok}
              THEN ReplyOfLLM(f = 7) ELSE NotAsked]

NoCalls == [m \in {"D1", "D2", "D3", "D4"} |-> << >>]

InitBatch ==
    /\ ctor \in [tavily_key : {"tvly-key"}, search_engine : {PyNone, "tavily"},
                 max_results : {5}]
    /\ runner = ExperimentRunner(ctor.tavily_key, ctor.search_engine,
                                 DEFAULT_TEMPERATURE, ctor.max_results).value
    /\ scenario = NoRecord
    /\ now = 0
    /\ method = "none"
    /\ calls = << >>
    /\ returned = NoRecord
    /\ escaped = << >>
    /\ applied = "run_experiment_batch"
    /\ applied_args \in [scenarios : BatchScenarioLists, methods : MethodSelections]
    /\ applied_result = [all_results |-> << >>, calls_of |-> NoCalls, returned |-> FALSE]
    /\ store = AbsentFile

\* one pass of `for scenario in scenarios`
BatchScenarioStep ==
    /\ applied = "run_experiment_batch"
    /\ ~applied_result.returned
    /\ Len(applied_result.all_results) < Len(applied_args.scenarios)
    /\ \E f \in FailingCalls :
         LET scen == applied_args.scenarios[Len(applied_result.all_results) + 1]
             body == run_experiment_batch_body(runner, scen, applied_args.methods,
                                               now, BatchReplies(f))
         IN  /\ applied_result' =
                  [all_results |-> Append(applied_result.all_results, body.entry),
                   calls_of |-> body.calls_of,
                   returned |-> FALSE]
             /\ calls' = body.calls_of["D1"] \o body.calls_of["D2"]
                          \o body.calls_of["D3"] \o body.calls_of["D4"]
             /\ scenario' = scen
    /\ now' = now + 5
    /\ method' = "BATCH"
    /\ UNCHANGED <<ctor, runner, returned, escaped, applied, applied_args, store>>

\* `return all_results`, the loop being over
BatchReturn ==
    /\ applied = "run_experiment_batch"
    /\ ~applied_result.returned
    /\ Len(applied_result.all_results) = Len(applied_args.scenarios)
    /\ applied_result' = [applied_result EXCEPT !.returned = TRUE]
    /\ UNCHANGED <<ctor, runner, scenario, now, method, calls, returned, escaped,
                   applied, applied_args, store>>

NextBatch == BatchScenarioStep \/ BatchReturn

SpecBatch == InitBatch /\ [][NextBatch]_vars

----------------------------------------------------------------------------
(* The methods of the handlers applied on their own: a behaviour draws the *)
(* arguments, then applies one method to them. The runner stays as         *)
(* constructed without a search backend and runs nothing.                  *)

HarnessIdle ==
    /\ ctor = [tavily_key |-> PyNone, search_engine |-> PyNone, max_results |-> 5]
    /\ runner = ExperimentRunner(ctor.tavily_key, ctor.search_engine,
                                 DEFAULT_TEMPERATURE, ctor.max_results).value
    /\ scenario = [conversation_history |-> << >>,
                   current_question |-> <<"Is surgery needed?">>]
    /\ now = 0
    /\ method = "none"
    /\ calls = << >>
    /\ returned = NoRecord
    /\ escaped = << >>

HarnessVars == <<ctor, runner, scenario, now, method, calls, returned, escaped>>

\* ... and nothing has been saved
RunnerIdle == HarnessIdle /\ store = AbsentFile

RunnerVars == <<HarnessVars, store>>

\* most results in a list handed to _format_search_results
MaxFormatResults == 6

\* The i-th applied_result of a list to format. A applied_result of the search handler has
\* title, content and url; _format_search_results also reads results that
\* carry a snippet instead of the content, or none of the fields.
FormatResult(i, kind) ==
    CASE kind = "content" -> [title |-> <<"title ", NumStr(i)>>,
                              content |-> <<"content ", NumStr(i)>>,
                              snippet |-> <<"snippet ", NumStr(i)>>,
                              url |-> <<"https://site/", NumStr(i)>>]
      [] kind = "snippet" -> [title |-> <<"title ", NumStr(i)>>,
                              snippet |-> <<"snippet ", NumStr(i)>>,
                              url |-> <<"https://site/", NumStr(i)>>]
      [] OTHER            -> [score |-> "1.0"]

FormatResultLists ==
    UNION {{[i \in 1..n |-> FormatResult(i, kinds[i])] :
               kinds \in [1..n -> {"content", "snippet", "bare"}]} :
           n \in 0..MaxFormatResults}

InitFormat ==
    /\ RunnerIdle
    /\ applied = "none"
    /\ applied_args \in [search_results : FormatResultLists]
    /\ applied_result = NoRecord

Format ==
    /\ applied = "none"
    /\ applied' = "_format_search_results"
    /\ applied_result' = [value |-> _format_search_results(applied_args.search_results)]
    /\ UNCHANGED <<applied_args, RunnerVars>>

NextFormat == Format

SpecFormat == InitFormat /\ [][NextFormat]_vars

\* The search handler on its own: it is constructed from an engine name and
\* an API key, then one of its search methods is called once.
EngineArgs == Engines \cup {"Tavily", "BRAVE"}

InitSearch ==
    /\ RunnerIdle
    /\ applied = "none"
    /\ applied_args \in [engine : EngineArgs, api_key : ApiKeys]
    /\ applied_result = NoRecord

Construct ==
    /\ applied = "none"
    /\ applied' = "SearchHandler"
    /\ applied_result' = SearchHandler(applied_args.engine, applied_args.api_key)
    /\ UNCHANGED <<applied_args, RunnerVars>>

\* the replies a search of the handler can receive: one of the backend's
\* when the handler dispatches to a backend, none otherwise
HandlerReplies(self) ==
    IF self.engine \in {"tavily", "brave"} THEN SearchOutcomes ELSE {NotAsked}

Search ==
    /\ applied = "SearchHandler"
    /\ ~applied_result.raised
    /\ \E query \in Questions, max_results \in MaxResultsArgs :
         \E out \in HandlerReplies(applied_result.value) :
            /\ applied' = "search"
            /\ applied_args' = [self |-> applied_result.value, query |-> query,
                                max_results |-> max_results]
            /\ applied_result' = search(applied_result.value, query, max_results, out)
    /\ UNCHANGED RunnerVars

SearchWithFallback ==
    /\ applied = "SearchHandler"
    /\ ~applied_result.raised
    /\ \E query \in Questions, max_results \in MaxResultsArgs :
         \E out \in HandlerReplies(applied_result.value) :
            /\ applied' = "search_with_fallback"
            /\ applied_args' = [self |-> applied_result.value, query |-> query,
                                max_results |-> max_results]
            /\ applied_result' = search_with_fallback(applied_result.value, query,
                                                      max_results, out)
    /\ UNCHANGED RunnerVars

NextSearch == Construct \/ Search \/ SearchWithFallback

SpecSearch == InitSearch /\ [][NextSearch]_vars

\* The focus coverage of the evaluator on its own.

\* most terms in an expected_focus list
MaxFocus == 3

\* "knee pain", "Vitamin D", "MRI", "rest"
FocusTerms ==
    {<<"k", "n", "e", "e", " ", "p", "a", "i", "n">>,
     <<"V", "i", "t", "a", "m", "i", "n", " ", "D">>,
     <<"M", "R", "I">>,
     <<"r", "e", "s", "t">>}

\* "", "Rest the knee", "d", "an mri", "vitamin d", "pains"
FocusResponses ==
    {<< >>,
     <<"R", "e", "s", "t", " ", "t", "h", "e", " ", "k", "n", "e", "e">>,
     <<"d">>,
     <<"a", "n", " ", "m", "r", "i">>,
     <<"v", "i", "t", "a", "m", "i", "n", " ", "d">>,
     <<"p", "a", "i", "n", "s">>}

InitCoverage ==
    /\ RunnerIdle
    /\ applied = "none"
    /\ applied_args \in [response : FocusResponses,
                         expected_focus : UNION {[1..n -> FocusTerms] : n \in 0..MaxFocus}]
    /\ applied_result = NoRecord

Coverage ==
    /\ applied = "none"
    /\ applied' = "_calculate_focus_coverage"
    /\ applied_result' = [value |-> _calculate_focus_coverage(applied_args.response,
                                                              applied_args.expected_focus)]
    /\ UNCHANGED <<applied_args, RunnerVars>>

NextCoverage == Coverage

SpecCoverage == InitCoverage /\ [][NextCoverage]_vars

\* longest text the provider returns for a query enhancement, in characters
MaxTextLen == 3

\* The texts a completion can hold where an enhanced query is expected: any
\* run of spaces, quote characters and words.
EnhanceChars == {" ", "\"", "'", "knee"}

EnhanceTexts == UNION {[1..n -> EnhanceChars] : n \in 0..MaxTextLen}

EnhanceOutcomes ==
    {[ok |-> TRUE, content |-> t,
      usage |-> [prompt_tokens |-> 20, completion_tokens |-> 7, total_tokens |-> 27]] :
        t \in EnhanceTexts \cup {NoneContent}}
    \cup {[ok |-> FALSE, kind |-> "APIError", msg |-> e] : e \in LLMErrors}

InitEnhance ==
    /\ RunnerIdle
    /\ applied = "none"
    /\ applied_args \in Scenarios
    /\ applied_result = NoRecord

Enhance ==
    /\ applied = "none"
    /\ applied' = "enhance_query"
    /\ \E out \in EnhanceOutcomes :
          applied_result' = enhance_query(runner.llm_handler,
                                          applied_args.conversation_history,
                                          applied_args.current_question, out)
    /\ UNCHANGED <<applied_args, RunnerVars>>

NextEnhance == Enhance

SpecEnhance == InitEnhance /\ [][NextEnhance]_vars

----------------------------------------------------------------------------
(* One run of run_d4 on a runner with a search backend or none, the        *)
(* enhancement call being answered with any of the texts of EnhanceTexts.  *)

InitQuery ==
    /\ ctor \in [tavily_key : {"tvly-key"}, search_engine : {PyNone, "tavily"},
                 max_results : {5}]
    /\ runner = ExperimentRunner(ctor.tavily_key, ctor.search_engine,
                                 DEFAULT_TEMPERATURE, ctor.max_results).value
    /\ scenario \in [conversation_history : {<< >>, <<Utterance(1)>>},
                     current_question : Questions]
    /\ now = 0
    /\ method = "none"
    /\ calls = << >>
    /\ returned = NoRecord
    /\ escaped = << >>
    /\ applied = "none"
    /\ applied_args = NoRecord
    /\ applied_result = NoRecord
    /\ store = AbsentFile

RunD4Query ==
    /\ method = "none"
    /\ \E e_out \in EnhanceOutcomes, s_out \in AllSearchReplies :
         \E g_out \in AllGenerationReplies(s_out) :
           \E outcome \in {run_d4(runner, scenario.conversation_history,
                                  scenario.current_question, now,
                                  e_out, s_out, g_out)} :
             Ran("D4", outcome)

NextQuery == RunD4Query

SpecQuery == InitQuery /\ [][NextQuery]_vars

----------------------------------------------------------------------------
(* save_results and load_results on the results file. The file starts      *)
(* absent, holding a list of entries, or holding something else.           *)

MaxStore == 4

StoreEntry(i) == [scenario_id |-> i, domain |-> "medical"]

StoreEntries == {StoreEntry(i) : i \in 1..2}

\* what save_results is given: a list of entries or one entry
SaveArgs ==
    {List(es) : es \in UNION {[1..n -> StoreEntries] : n \in 0..2}}
        \cup {Dict(e) : e \in StoreEntries}

InitialFiles ==
    {AbsentFile, NotJsonFile, NotUtf8File, JsonFile(Dict(<< >>))}
        \cup {JsonFile(List(es)) : es \in UNION {[1..n -> StoreEntries] : n \in 0..1}}

\* the number of entries the file would hold with these added
EntriesAfter(file, results) ==
    (IF file.kind = "json" /\ file.doc.type = "list" THEN Len(file.doc.v) ELSE 0)
        + (IF results.type = "list" THEN Len(results.v) ELSE 1)

InitStore ==
    /\ HarnessIdle
    /\ store \in InitialFiles
    /\ applied = "none"
    /\ applied_args = NoRecord
    /\ applied_result = NoRecord

SaveResults ==
    \E results \in SaveArgs :
        /\ EntriesAfter(store, results) <= MaxStore
        /\ store' = save_results(store, results)
        /\ applied' = "save_results"
        /\ applied_args' = results
        /\ applied_result' = Returns(PyNone, << >>)
        /\ UNCHANGED HarnessVars

LoadResults ==
    /\ applied' = "load_results"
    /\ applied_args' = NoRecord
    /\ applied_result' = load_results(store)
    /\ UNCHANGED <<store, HarnessVars>>

NextStore == SaveResults \/ LoadResults

SpecStore == InitStore /\ [][NextStore]_vars

----------------------------------------------------------------------------
(* run_d1 called again and again with the same question. The caller keeps  *)
(* each record with the provider calls that the call issued.               *)

MaxRepeats == 3

InitRepeat ==
    /\ RunnerIdle
    /\ applied = "run_d1"
    /\ applied_args \in [question : Questions]
    /\ applied_result = << >>

\* a run_d1 that keeps the record of its first call for the question
RepeatD1_cached ==
    /\ now < MaxRepeats
    /\ now' = now + 1
    /\ \E g_out \in LLMOutcomes :
           LET outcome == IF applied_result = << >>
                          THEN run_d1(runner, applied_args.question, now, g_out)
                          ELSE Returns(applied_result[1].record, << >>)
           IN  /\ method' = "D1"
               /\ calls' = outcome.calls
               /\ returned' = outcome.value
               /\ applied_result' = Append(applied_result,
                                           [record |-> outcome.value,
                                            calls |-> outcome.calls])
    /\ UNCHANGED <<ctor, runner, scenario, escaped, applied, applied_args, store>>

RepeatD1 ==
    /\ now < MaxRepeats
    /\ now' = now + 1
    /\ \E g_out \in LLMOutcomes :
           LET outcome == run_d1(runner, applied_args.question, now, g_out)
           IN  /\ method' = "D1"
               /\ calls' = outcome.calls
               /\ returned' = outcome.value
               /\ applied_result' = Append(applied_result,
                                           [record |-> outcome.value,
                                            calls |-> outcome.calls])
    /\ UNCHANGED <<ctor, runner, scenario, escaped, applied, applied_args, store>>

NextRepeat == RepeatD1

SpecRepeat == InitRepeat /\ [][NextRepeat]_vars

----------------------------------------------------------------------------
(* The dashboard: "Run Experiment" with scenarios and methods selected.    *)
(* One step per scenario, then the results are saved. The scenarios of the *)
(* page have a conversation history, which the page displays. In each      *)
(* scenario at most one provider call fails.                               *)

AppScenario(i) ==
    [id |-> i, domain |-> IF i = 1 THEN "medical" ELSE "legal",
     conversation_history |-> [k \in 1..(i - 1) |-> Utterance(k)],
     current_question |-> IF i = 1 THEN <<"Is surgery needed?">>
                          ELSE <<"What exercise helps knee pain?">>]

AppScenarioLists == {[i \in 1..n |-> AppScenario(i)] : n \in 1..MaxBatch}

AppMethodSelections ==
    {{"D1: LLM-only (no history)", "D4: RAG with history"},
     {"D2: LLM with history", "D3: RAG (current question)"},
     {"D1: LLM-only (no history)"}}

InitApp ==
    /\ ctor \in [tavily_key : {"tvly-key"}, search_engine : {PyNone, "Tavily"},
                 max_results : {5}]
    /\ runner = ExperimentRunner(ctor.tavily_key, ctor.search_engine,
                                 DEFAULT_TEMPERATURE, ctor.max_results).value
    /\ scenario = NoRecord
    /\ now = 0
    /\ method = "none"
    /\ calls = << >>
    /\ returned = NoRecord
    /\ escaped = << >>
    /\ applied = "experiment_tab"
    /\ applied_args \in [scenarios : AppScenarioLists, methods : AppMethodSelections]
    /\ applied_result = [all_results |-> << >>, saved |-> FALSE]
    /\ store \in {AbsentFile, JsonFile(List(<<StoreEntry(1)>>))}

\* one pass of `for scenario in selected_scenario_data`
AppScenarioStep ==
    /\ applied = "experiment_tab"
    /\ ~applied_result.saved
    /\ Len(applied_result.all_results) < Len(applied_args.scenarios)
    /\ \E f \in FailingCalls :
         \E body \in {app_run_scenario(
                          runner,
                          applied_args.scenarios[Len(applied_result.all_results) + 1],
                          applied_args.methods, now, BatchReplies(f))} :
             /\ applied_result' =
                  [all_results |-> Append(applied_result.all_results, body.entry),
                   result_of |-> body.result_of,
                   shown |-> body.shown,
                   calls_of |-> body.calls_of,
                   saved |-> FALSE]
             /\ scenario' = applied_args.scenarios[Len(applied_result.all_results) + 1]
    /\ now' = now + 5
    /\ method' = "APP"
    /\ UNCHANGED <<ctor, runner, calls, returned, escaped, applied, applied_args, store>>

\* save_results(all_results), the loop being over
AppSave ==
    /\ applied = "experiment_tab"
    /\ ~applied_result.saved
    /\ Len(applied_result.all_results) = Len(applied_args.scenarios)
    /\ store' = save_results(store, List(applied_result.all_results))
    /\ applied_result' = [applied_result EXCEPT !.saved = TRUE]
    /\ UNCHANGED <<ctor, runner, scenario, now, method, calls, returned, escaped,
                   applied, applied_args>>

NextApp == AppScenarioStep \/ AppSave

SpecApp == InitApp /\ [][NextApp]_vars

----------------------------------------------------------------------------
(* Reading the last run *)

MethodTag(m) ==
    CASE m = "D1" -> "D1_LLM_ONLY"
      [] m = "D2" -> "D2_LLM_WITH_HISTORY"
      [] m = "D3" -> "D3_RAG_CURRENT_ONLY"
      [] m = "D4" -> "D4_RAG_WITH_HISTORY"
      [] OTHER -> "none"

StrategyPrompt(m) ==
    CASE m = "D1" -> SYSTEM_PROMPTS.d1_no_history
      [] m = "D2" -> SYSTEM_PROMPTS.d2_with_history
      [] m = "D3" -> SYSTEM_PROMPTS.d3_rag_no_history
      [] OTHER -> SYSTEM_PROMPTS.d4_rag_with_history

IsLLMCall(c) == c.api = "chat.completions.create"
IsSearchCall(c) == ~IsLLMCall(c)

\* a response-generation call of strategy m: it opens with m's system prompt
IsGenerationCall(c, m) ==
    /\ IsLLMCall(c)
    /\ c.request.messages # << >>
    /\ c.request.messages[1] = Message("system", StrategyPrompt(m))

\* a query-enhancement call: one user message, the enhancement prompt, and
\* no system prompt
IsEnhancementCall(c) ==
    /\ IsLLMCall(c)
    /\ Len(c.request.messages) = 1
    /\ c.request.messages[1].role = "user"

CallsThat(P(_)) == {i \in 1..Len(calls) : P(calls[i])}

IsGenerationOfRun(c) == IsGenerationCall(c, method)
GenerationCalls == CallsThat(IsGenerationOfRun)
SearchCalls == CallsThat(IsSearchCall)
EnhancementCalls == CallsThat(IsEnhancementCall)

IsErrorRecord(r) == "error" \in DOMAIN r
IsSuccessRecord(r) == {"response", "usage"} \subseteq DOMAIN r /\ ~IsErrorRecord(r)

HasBackend == /\ runner.search_handler # NoHandler
              /\ runner.search_handler.engine \in {"tavily", "brave"}

----------------------------------------------------------------------------
(* The claims *)

\* C1: whatever the question, the history and the outcomes of the provider
\* calls, a run of run_d1..run_d4 returns one record, tagged with the method
\* of the strategy that ran, and lets no exception out.
C1_ReturnsOwnRecord ==
    method # "none" =>
        /\ escaped = << >>
        /\ returned # NoRecord
        /\ "method" \in DOMAIN returned
        /\ returned.method = MethodTag(method)

\* C1 witness: run_d4 returned its record after the search call failed
C1_Witness ==
    /\ method = "D4"
    /\ escaped = << >>
    /\ returned # NoRecord
    /\ returned.method = "D4_RAG_WITH_HISTORY"
    /\ \E i \in SearchCalls : ~calls[i].reply.ok

\* C2: a returned record is a success record (response and usage, no error)
\* or an error record (error, no response), and an error record has the
\* keys method, error and timestamp and no other.
C2_SuccessXorError ==
    method # "none" =>
        \/ IsSuccessRecord(returned) /\ "error" \notin DOMAIN returned
        \/ /\ IsErrorRecord(returned)
           /\ "response" \notin DOMAIN returned
           /\ DOMAIN returned = {"method", "error", "timestamp"}

\* C2 witness: run_d4 returned an error record after enhancement and search
\* had succeeded and generation failed
C2_Witness ==
    /\ method = "D4"
    /\ Len(calls) = 3
    /\ calls[1].reply.ok /\ calls[2].reply.ok /\ ~calls[3].reply.ok
    /\ DOMAIN returned = {"method", "error", "timestamp"}

\* every provider call of the last run is a generation call of the strategy,
\* a search call or an enhancement call
CallsAreClassified ==
    GenerationCalls \cup SearchCalls \cup EnhancementCalls = 1..Len(calls)

AtMostOneSearchAndEnhancement ==
    /\ Cardinality(SearchCalls) <= 1
    /\ Cardinality(EnhancementCalls) <= 1
    /\ method \in {"D1", "D2"} => SearchCalls = {} /\ EnhancementCalls = {}
    /\ method = "D3" => EnhancementCalls = {}

\* the search step of the last run failed: search() raised, on a failed
\* provider call or on an engine it does not support
SearchStepFailed ==
    /\ method \in {"D3", "D4"}
    /\ runner.search_handler # NoHandler
    /\ \/ ~HasBackend
       \/ \E i \in SearchCalls : ~calls[i].reply.ok

\* C3 as claimed: every run issues exactly one generation call (the call with
\* the strategy's system prompt), at most one search call and at most one
\* enhancement call; D1 and D2 issue neither of the latter, D3 no enhancement
\* call.
C3_ExactlyOneGeneration ==
    method # "none" =>
        /\ Cardinality(GenerationCalls) = 1
        /\ CallsAreClassified
        /\ AtMostOneSearchAndEnhancement

\* C3 as amended: a run whose search step failed issues no generation call,
\* every other run exactly one; the rest as claimed.
C3_OneGenerationUnlessSearchFailed ==
    method # "none" =>
        /\ Cardinality(GenerationCalls) = (IF SearchStepFailed THEN 0 ELSE 1)
        /\ CallsAreClassified
        /\ AtMostOneSearchAndEnhancement

\* C3 witness: run_d4 issued one enhancement, one search and one generation
\* call, and the generation call failed
C3_Witness ==
    /\ method = "D4"
    /\ Len(calls) = 3
    /\ Cardinality(EnhancementCalls) = 1
    /\ Cardinality(SearchCalls) = 1
    /\ GenerationCalls = {3}
    /\ ~calls[3].reply.ok

\* C4: in run_d4 with a search handler the provider calls are, in this order,
\* the enhancement call, the search call and the generation call; the search
\* call's query is the enhanced_query the enhancer returned; the generation
\* call is the D4 request built from the original question, the scenario's
\* history and the results search() returned.
C4_D4CallOrder ==
    (method = "D4" /\ runner.search_handler # NoHandler) =>
        LET h == scenario.conversation_history
            q == scenario.current_question
        IN  /\ Len(calls) \in 1..3
            /\ IsEnhancementCall(calls[1])
            /\ HasBackend => Len(calls) >= 2
            /\ Len(calls) >= 2 =>
                 /\ IsSearchCall(calls[2])
                 /\ calls[2].request.query =
                      enhance_query(runner.llm_handler, h, q,
                                    calls[1].reply).value.enhanced_query
                 /\ calls[2].reply.ok <=> Len(calls) = 3
            /\ Len(calls) = 3 =>
                 LET found == search(runner.search_handler, calls[2].request.query,
                                     runner.max_results, calls[2].reply).value.results
                 IN  /\ IsGenerationCall(calls[3], "D4")
                     /\ calls[3].request.messages =
                          generate_d4_response(runner.llm_handler, h, q, found,
                                               calls[3].reply).calls[1].request.messages

\* C4 witness: all three calls were issued, with an enhanced query that is
\* not the question, a history and a search reply of two results
C4_Witness ==
    /\ method = "D4"
    /\ HasBackend
    /\ Len(calls) = 3
    /\ calls[1].reply.ok
    /\ calls[2].request.query # scenario.current_question
    /\ Len(calls[2].reply.results) = 2
    /\ Len(scenario.conversation_history) = 2

\* C5: when the enhancement call of run_d4 fails and the search and generation
\* calls after it succeed, the search is made with the original question, the
\* generation call is made, and the record is a success record whose
\* search_query is the question and whose query_enhancement record carries the
\* enhancement's error message.
C5_EnhancementFailureIsNotFatal ==
    (/\ method = "D4"
     /\ HasBackend
     /\ calls # << >>
     /\ ~calls[1].reply.ok
     /\ \A i \in 2..Len(calls) : calls[i].reply.ok) =>
        /\ Len(calls) = 3
        /\ IsSearchCall(calls[2])
        /\ calls[2].request.query = scenario.current_question
        /\ IsGenerationCall(calls[3], "D4")
        /\ IsSuccessRecord(returned)
        /\ returned.search_query = scenario.current_question
        /\ "error" \in DOMAIN returned.query_enhancement
        /\ returned.query_enhancement.error =
             <<"Query enhancement failed: ", "LLM generation failed: ">>
             \o calls[1].reply.msg

\* C5 witness: the enhancement call failed and run_d4 returned a success record
C5_Witness ==
    /\ method = "D4"
    /\ HasBackend
    /\ Len(calls) = 3
    /\ ~calls[1].reply.ok /\ calls[2].reply.ok /\ calls[3].reply.ok
    /\ IsSuccessRecord(returned)

RetainsEnhancement(r) ==
    /\ {"original_question", "search_query", "query_enhancement"} \subseteq DOMAIN r
    /\ r.original_question = scenario.current_question
    /\ r.search_query = r.query_enhancement.enhanced_query
    /\ r.query_enhancement.original_question = scenario.current_question
    /\ r.query_enhancement.history_length = Len(scenario.conversation_history)

\* C6 as claimed: every record run_d4 returns, whatever the outcomes of the
\* provider calls, holds the original question, the enhanced query as
\* search_query and the query-enhancement record with the history's length.
C6_EveryD4RecordRetainsEnhancement ==
    method = "D4" => RetainsEnhancement(returned)

\* C6 as amended: every success record run_d4 returns holds them.
C6_SuccessRecordRetainsEnhancement ==
    (method = "D4" /\ IsSuccessRecord(returned)) => RetainsEnhancement(returned)

\* C6 witness: a success record of run_d4 on a history of two utterances whose
\* enhanced query is not the question
C6_Witness ==
    /\ method = "D4"
    /\ IsSuccessRecord(returned)
    /\ Len(scenario.conversation_history) = 2
    /\ returned.search_query # returned.original_question

\* the runner was constructed without a search key or without an engine
NoKeyOrEngine == ~Truthy(ctor.tavily_key) \/ ~Truthy(ctor.search_engine)

\* the last provider call of the last run
LastCall == calls[Len(calls)]

\* C7: a runner without a search handler (no search key or no engine was
\* given) issues no search call in run_d3 and run_d4, gives generation the
\* empty result list, and when generation succeeds returns a success record
\* with search_results = [], search_engine = "none" and no error.
C7_NoHandlerNoSearch ==
    (method \in {"D3", "D4"} /\ (NoKeyOrEngine \/ runner.search_handler = NoHandler)) =>
        LET h == scenario.conversation_history
            q == scenario.current_question
        IN  /\ runner.search_handler = NoHandler
            /\ SearchCalls = {}
            /\ GenerationCalls = {Len(calls)}
            /\ LastCall.request.messages =
                 (IF method = "D3"
                  THEN generate_d3_response(runner.llm_handler, q, << >>,
                                            LastCall.reply)
                  ELSE generate_d4_response(runner.llm_handler, h, q, << >>,
                                            LastCall.reply)).calls[1].request.messages
            /\ LastCall.reply.ok =>
                 /\ IsSuccessRecord(returned)
                 /\ returned.search_results = << >>
                 /\ returned.search_engine = "none"
                 /\ "error" \notin DOMAIN returned

\* C7 witness: run_d3 on a runner constructed with an engine and no key
\* returned a success record
C7_Witness ==
    /\ method = "D3"
    /\ ctor.tavily_key = PyNone /\ ctor.search_engine = "tavily"
    /\ Len(calls) = 1
    /\ IsSuccessRecord(returned)
    /\ returned.search_engine = "none"

SearchFailurePrefixes ==
    {"Tavily search failed: ", "Tavily search error: ",
     "Brave search failed: ", "Brave search error: "}

\* text ends with tail and has something before it
EndsWith(text, tail) ==
    /\ Len(text) > Len(tail)
    /\ SubSeq(text, Len(text) - Len(tail) + 1, Len(text)) = tail

\* C8: when a search handler is configured and the search fails, run_d3 and
\* run_d4 return an error record with the search failure's message and no
\* search_results; a success record with search_engine "none" comes only
\* from a runner without a search handler.
C8_SearchFailureIsAnError ==
    method \in {"D3", "D4"} =>
        /\ SearchStepFailed =>
             /\ IsErrorRecord(returned)
             /\ ~IsSuccessRecord(returned)
             /\ "search_results" \notin DOMAIN returned
             /\ "search_engine" \notin DOMAIN returned
        /\ \A i \in SearchCalls :
             ~calls[i].reply.ok =>
                 /\ IsErrorRecord(returned)
                 /\ returned.error[1] \in SearchFailurePrefixes
                 /\ EndsWith(returned.error, calls[i].reply.msg)
        /\ (IsSuccessRecord(returned) /\ returned.search_engine = "none") =>
             /\ runner.search_handler = NoHandler
             /\ SearchCalls = {}

\* C8 witness: the search call of run_d3 failed and an error record came back
C8_Witness ==
    /\ method = "D3"
    /\ HasBackend
    /\ Len(calls) = 1
    /\ IsSearchCall(calls[1])
    /\ ~calls[1].reply.ok
    /\ IsErrorRecord(returned)

\* C9: the messages generate_d2_response sends are the with-history system
\* prompt, then the history entries in order, entry i (from 0) as user when
\* i is even and as assistant when i is odd, then the question as user:
\* len(h) + 2 messages.
C9_D2Messages ==
    method = "D2" =>
        /\ Len(calls) = 1
        /\ LET h == scenario.conversation_history
               m == calls[1].request.messages
           IN  /\ Len(m) = Len(h) + 2
               /\ m[1] = [role |-> "system", content |-> SYSTEM_PROMPTS.d2_with_history]
               /\ \A i \in 0..(Len(h) - 1) :
                    /\ m[i + 2].content = h[i + 1]
                    /\ m[i + 2].role = (IF i \in {0, 2, 4, 6} THEN "user" ELSE "assistant")
               /\ m[Len(h) + 2] = [role |-> "user", content |-> scenario.current_question]

\* C9 witness: run_d2 ran on a history of three utterances
C9_Witness ==
    /\ method = "D2"
    /\ Len(scenario.conversation_history) = 3
    /\ Len(calls) = 1
    /\ Len(calls[1].request.messages) = 5

Tokens(text) == {text[i] : i \in 1..Len(text)}

\* the tokens of the scenario's history entries
HistoryTokens ==
    UNION {Tokens(scenario.conversation_history[i]) :
              i \in 1..Len(scenario.conversation_history)}

\* the tokens that search results bring into a request: the fields of the
\* results a backend can report, and the headings of the search context
SearchResultTokens ==
    UNION {UNION {Tokens(RawResult(i)[f]) :
                     f \in DOMAIN RawResult(i) \ {"score"}} :
              i \in 1..MaxProviderResults}
    \cup {"Search Results:\n", "No search results available."}

\* the tokens of the messages of the generation call of the last run
GenerationRequestTokens ==
    UNION {UNION {Tokens(calls[i].request.messages[j].content) :
                     j \in 1..Len(calls[i].request.messages)} :
              i \in GenerationCalls}

\* C10: the D1 request is the no-history system prompt and one user message,
\* the question; the D2 request holds no search-result text; the D3 request
\* holds no history entry and no assistant message.
C10_RequestsHoldOnlyTheirInputs ==
    /\ method = "D1" =>
         /\ Len(calls) = 1
         /\ calls[1].request.messages =
              <<[role |-> "system", content |-> SYSTEM_PROMPTS.d1_no_history],
                [role |-> "user", content |-> scenario.current_question]>>
    /\ method = "D2" =>
         /\ GenerationCalls = {1}
         /\ GenerationRequestTokens \cap SearchResultTokens = {}
    /\ method = "D3" =>
         /\ GenerationRequestTokens \cap HistoryTokens = {}
         /\ \A i \in GenerationCalls :
              /\ Len(calls[i].request.messages) = 2
              /\ calls[i].request.messages[2].role = "user"

\* C10 witness: run_d3 sent its generation request on a scenario with a
\* history, after a search that returned two results
C10_Witness ==
    /\ method = "D3"
    /\ Len(scenario.conversation_history) = 3
    /\ Len(calls) = 2
    /\ IsSearchCall(calls[1])
    /\ Len(calls[1].reply.results) = 2
    /\ GenerationCalls = {2}

----------------------------------------------------------------------------
(* The request of the with-history RAG strategy *)

\* the results the generation call of the last run was given: the normalized
\* results of the search before it, none when no search was made
SearchResultsOfRun ==
    IF SearchCalls = {} THEN << >>
    ELSE LET c == calls[CHOOSE i \in SearchCalls : TRUE]
         IN  IF ~c.reply.ok THEN << >>
             ELSE IF c.api = "POST https://api.tavily.com/search"
                  THEN [i \in 1..Len(c.reply.results) |-> TavilyResult(c.reply.results[i])]
                  ELSE [i \in 1..Len(c.reply.results) |-> BraveResult(c.reply.results[i])]

\* C11: the messages generate_d4_response sends are the RAG-with-history
\* system prompt, then the history entries in order with roles by index
\* parity, then one system message holding the formatted search results,
\* then the question as the last user message; the search-result message is
\* the only system message after the prompt and comes after every history
\* entry.
C11_D4Messages ==
    method = "D4" =>
        \A g \in GenerationCalls :
            LET h == scenario.conversation_history
                m == calls[g].request.messages
            IN  /\ Len(m) = Len(h) + 3
                /\ m[1] = [role |-> "system", content |-> SYSTEM_PROMPTS.d4_rag_with_history]
                /\ \A i \in 0..(Len(h) - 1) :
                     /\ m[i + 2].content = h[i + 1]
                     /\ m[i + 2].role = (IF i \in {0, 2, 4, 6} THEN "user" ELSE "assistant")
                /\ m[Len(h) + 2].role = "system"
                /\ m[Len(h) + 2].content =
                     <<"Search Results:\n">> \o _format_search_results(SearchResultsOfRun)
                /\ m[Len(h) + 3] = [role |-> "user", content |-> scenario.current_question]
                /\ {i \in 2..Len(m) : m[i].role = "system"} = {Len(h) + 2}

\* C11 witness: run_d4 sent its generation request on a history of three
\* utterances, after a search that returned two results
C11_Witness ==
    /\ method = "D4"
    /\ Len(scenario.conversation_history) = 3
    /\ Len(calls) = 3
    /\ IsSearchCall(calls[2])
    /\ calls[2].reply.ok
    /\ Len(calls[2].reply.results) = 2
    /\ GenerationCalls = {3}
    /\ Len(calls[3].request.messages) = 6

----------------------------------------------------------------------------
(* The search context of the RAG strategies *)

\* the search context inside the generation request of a D3 or D4 run: what
\* follows the heading in the user message of D3 (up to the question part)
\* and in the search-result message of D4
SearchContextOf(c) ==
    LET m == c.request.messages
        q == scenario.current_question
    IN  IF method = "D3"
        THEN SubSeq(m[2].content, 2, Len(m[2].content) - Len(q) - 1)
        ELSE SubSeq(m[Len(m) - 1].content, 2, Len(m[Len(m) - 1].content))

\* C12: in the generation request of D3 and D4 the search context is the
\* marker "No search results available." when the strategy had no search
\* results, never the empty string; when it had results, the context is not
\* the marker and does not hold it.
C12_EmptyResultsGiveTheMarker ==
    method \in {"D3", "D4"} =>
        \A g \in GenerationCalls :
            LET context == SearchContextOf(calls[g])
            IN  /\ context # << >>
                /\ SearchResultsOfRun = << >> =>
                     context = <<"No search results available.">>
                /\ SearchResultsOfRun # << >> =>
                     "No search results available." \notin Tokens(context)

\* C12 witness: run_d3 generated after a search that returned no result
C12_Witness ==
    /\ method = "D3"
    /\ Len(calls) = 2
    /\ IsSearchCall(calls[1])
    /\ calls[1].reply.ok
    /\ calls[1].reply.results = << >>
    /\ GenerationCalls = {2}

\* C12 witness of the other case: run_d4 generated with two results
C12_WitnessResults ==
    /\ method = "D4"
    /\ GenerationCalls = {3}
    /\ Len(SearchResultsOfRun) = 2

----------------------------------------------------------------------------
(* The formatted search context *)

\* the entry expected for applied_result r at position i
C13_Entry(i, r) ==
    LET number == CASE i = 1 -> "1" [] i = 2 -> "2" [] i = 3 -> "3"
                    [] i = 4 -> "4" [] i = 5 -> "5"
        title == IF "title" \in DOMAIN r THEN r.title ELSE <<"No title">>
        body == IF "content" \in DOMAIN r THEN r.content
                ELSE IF "snippet" \in DOMAIN r THEN r.snippet ELSE <<"No content">>
        url == IF "url" \in DOMAIN r THEN r.url ELSE << >>
    IN  <<number, ". ">> \o title \o <<"\n   ">> \o body
        \o <<"\n   Source: ">> \o url \o <<"\n">>

\* the number of places of a text that hold the token
Occurrences(text, token) == Cardinality({i \in 1..Len(text) : text[i] = token})

\* C13: for a list of n results the formatted context holds exactly
\* min(n, 5) entries, numbered 1..min(n, 5): the first min(n, 5) results in
\* their order, each with its title, its content (the snippet when the
\* applied_result has no content) and its url after "Source: ", joined by newlines.
C13_AtMostFiveEntriesInOrder ==
    (applied = "_format_search_results" /\ applied_args.search_results # << >>) =>
        LET rs == applied_args.search_results
            n == IF Len(rs) < 5 THEN Len(rs) ELSE 5
        IN  /\ Occurrences(applied_result.value, "\n   Source: ") = n
            /\ Occurrences(applied_result.value, ". ") = n
            /\ applied_result.value = Join(<<"\n">>, [i \in 1..n |-> C13_Entry(i, rs[i])])

\* C13 witness: a list of six results was formatted, the second one with a
\* snippet and no content
C13_Witness ==
    /\ applied = "_format_search_results"
    /\ Len(applied_args.search_results) = 6
    /\ "content" \notin DOMAIN applied_args.search_results[2]
    /\ "snippet" \in DOMAIN applied_args.search_results[2]
    /\ Occurrences(applied_result.value, "\n   Source: ") = 5

----------------------------------------------------------------------------
(* Query enhancement *)

\* the reply the provider gave to the enhancement call
EnhanceReply == applied_result.calls[1].reply

\* the provider returned a text that enhance_query can clean up
EnhanceSucceeded == EnhanceReply.ok /\ EnhanceReply.content # NoneContent

\* C14: enhance_query never raises; when the provider call fails, or returns
\* no text, it returns a record whose enhanced_query and original_question
\* are the question, whose history_length is the length of the history, and
\* which carries an error message.
C14_EnhanceNeverRaises ==
    applied = "enhance_query" =>
        /\ ~applied_result.raised
        /\ Len(applied_result.calls) = 1
        /\ ~EnhanceSucceeded =>
             /\ applied_result.value.enhanced_query = applied_args.current_question
             /\ applied_result.value.original_question = applied_args.current_question
             /\ applied_result.value.history_length = Len(applied_args.conversation_history)
             /\ "error" \in DOMAIN applied_result.value
             /\ applied_result.value.error # << >>

\* C14 witness: the provider call failed on a scenario with three utterances
C14_Witness ==
    /\ applied = "enhance_query"
    /\ ~EnhanceReply.ok
    /\ Len(applied_args.conversation_history) = 3
    /\ applied_result.value.history_length = 3

\* C14 witness of the other case: the provider returned no text
C14_WitnessNoText ==
    /\ applied = "enhance_query"
    /\ EnhanceReply.ok
    /\ EnhanceReply.content = NoneContent
    /\ "error" \in DOMAIN applied_result.value

\* C15: when the provider call succeeds, the enhanced query is the provider's
\* text with all surrounding quotes and whitespace trimmed: it neither
\* starts nor ends with a whitespace character or a single or double quote.
C15_EnhancedQueryIsTrimmed ==
    (applied = "enhance_query" /\ EnhanceSucceeded) =>
        LET q == applied_result.value.enhanced_query
        IN  q # << >> =>
              /\ q[1] \notin {" ", "\n", "\t", "\"", "'"}
              /\ q[Len(q)] \notin {" ", "\n", "\t", "\"", "'"}

----------------------------------------------------------------------------
(* The search handler *)

\* C16: constructing a SearchHandler fails whenever the backend requires a
\* key and none is given: for every engine name that search() dispatches to
\* the Tavily or the Brave backend (the name in any case, the handler keeps
\* it lowercased), construction with an absent or empty api_key raises.
C16_KeylessBackendIsRejected ==
    (/\ applied = "SearchHandler"
     /\ applied_args.engine \in {"tavily", "Tavily", "brave", "BRAVE"}
     /\ applied_args.api_key \in {PyNone, ""}) =>
        applied_result.raised

\* the construction the claim misses: a keyless handler of the Tavily backend
C16_KeylessBackendHandler ==
    /\ applied = "SearchHandler"
    /\ applied_args.engine = "Tavily"
    /\ applied_args.api_key = PyNone
    /\ ~applied_result.raised
    /\ applied_result.value.engine = "tavily"

\* C17: search_with_fallback on a handler with no API key never raises and
\* returns a record with results = [] and engine = "none" that carries no
\* error marker.
C17_NoKeyFallbackIsNotAnError ==
    (/\ applied = "search_with_fallback"
     /\ applied_args.self.api_key \in {PyNone, ""}) =>
        /\ ~applied_result.raised
        /\ applied_result.value.results = << >>
        /\ applied_result.value.engine = "none"
        /\ "error" \notin DOMAIN applied_result.value

\* a search method of the handler returned what a backend replied
BackendReplied ==
    /\ applied \in {"search", "search_with_fallback"}
    /\ Len(applied_result.calls) = 1
    /\ applied_result.calls[1].reply.ok

\* the results of the backend's reply, and the field a backend puts the text
\* of a result in
RepliedResults == applied_result.calls[1].reply.results
TextField == IF applied_args.self.engine = "tavily" THEN "content" ELSE "description"

\* record rec holds the title, text and url of the provider's result raw,
\* the empty string for each one that raw lacks
NormalizesFields(rec, raw) ==
    /\ DOMAIN rec = {"title", "content", "url", "score"}
    /\ rec.title = (IF "title" \in DOMAIN raw THEN raw.title ELSE << >>)
    /\ rec.content = (IF TextField \in DOMAIN raw THEN raw[TextField] ELSE << >>)
    /\ rec.url = (IF "url" \in DOMAIN raw THEN raw.url ELSE << >>)

\* C18 as stated: a successful search of either backend returns one
\* normalized record per provider result, in the provider's order, each with
\* title, content, url and relevance; a missing title, content or url is the
\* empty string, and the relevance of a result for which the backend reports
\* none is 1.0.
C18_MissingRelevanceIsOne ==
    BackendReplied =>
        /\ ~applied_result.raised
        /\ Len(applied_result.value.results) = Len(RepliedResults)
        /\ \A i \in 1..Len(RepliedResults) :
             LET rec == applied_result.value.results[i]
                 raw == RepliedResults[i]
             IN  /\ NormalizesFields(rec, raw)
                 /\ rec.score = (IF applied_args.self.engine = "tavily"
                                     /\ "score" \in DOMAIN raw
                                  THEN raw.score ELSE "1.0")

\* C18 amended: as above, but the relevance is 1.0 for every result of the
\* Brave backend, which reports none, and for a result of the Tavily backend
\* it is the score Tavily reports, 0 when the result carries no score.
C18_RelevancePerBackend ==
    BackendReplied =>
        /\ ~applied_result.raised
        /\ Len(applied_result.value.results) = Len(RepliedResults)
        /\ \A i \in 1..Len(RepliedResults) :
             LET rec == applied_result.value.results[i]
                 raw == RepliedResults[i]
             IN  /\ NormalizesFields(rec, raw)
                 /\ applied_args.self.engine = "brave" => rec.score = "1.0"
                 /\ applied_args.self.engine = "tavily" =>
                      rec.score = (IF "score" \in DOMAIN raw THEN raw.score ELSE "0")

\* C18 witness: a Tavily search returned two results, the second one without
\* title, content and score
C18_Witness ==
    /\ applied = "search"
    /\ applied_args.self.engine = "tavily"
    /\ BackendReplied
    /\ Len(applied_result.value.results) = 2
    /\ DOMAIN RepliedResults[2] = {"url"}
    /\ applied_result.value.results[2].title = << >>
    /\ applied_result.value.results[2].score = "0"

----------------------------------------------------------------------------
(* Failure of the generation call *)

\* the generation call of the last run failed at the provider
GenerationFailed ==
    /\ method # "none"
    /\ \E g \in GenerationCalls : ~calls[g].reply.ok

\* the message the provider failed with
ProviderMessage == calls[CHOOSE g \in GenerationCalls : ~calls[g].reply.ok].reply.msg

\* C19 as stated: when the provider call fails with message m during
\* generation, the 'error' field of the record the strategy returns equals m
\* and the provider is called only once for that generation.
C19_ErrorEqualsProviderMessage ==
    GenerationFailed =>
        /\ Cardinality(GenerationCalls) = 1
        /\ IsErrorRecord(returned)
        /\ returned.error = ProviderMessage

\* C19 amended: the 'error' field is "LLM generation failed: " followed by m,
\* unaltered; the provider is called only once for that generation and no
\* call follows the failed one.
C19_ErrorWrapsProviderMessage ==
    GenerationFailed =>
        /\ Cardinality(GenerationCalls) = 1
        /\ GenerationCalls = {Len(calls)}
        /\ escaped = << >>
        /\ IsErrorRecord(returned)
        /\ returned.error = <<"LLM generation failed: ">> \o ProviderMessage

\* C19 witness: the generation call of run_d1 failed with a rate limit error
C19_Witness ==
    /\ method = "D1"
    /\ Len(calls) = 1
    /\ ~calls[1].reply.ok
    /\ calls[1].reply.msg = <<"429 rate limit">>
    /\ returned.error = <<"LLM generation failed: ", "429 rate limit">>

----------------------------------------------------------------------------
(* run_all_methods *)

\* the history run_all_methods hands to D2 and D4: the scenario's, or the
\* empty one when the scenario has none
HistoryOfScenario ==
    IF "conversation_history" \in DOMAIN scenario
    THEN scenario.conversation_history ELSE << >>

\* C20: run_all_methods always runs the four strategies and returns a
\* mapping with exactly the keys D1, D2, D3, D4, each mapped to the record of
\* that strategy; whatever the other calls answered, each strategy is run
\* and sends the request it sends on its own: D1 its two messages, D2 its
\* len(h) + 2 messages, D3 its search for the question (its generation
\* request when the runner has no backend), D4 its enhancement request.
C20_AllFourStrategiesRun ==
    method = "ALL" =>
        /\ escaped = << >>
        /\ DOMAIN returned = {"D1", "D2", "D3", "D4"}
        /\ returned.D1.method = "D1_LLM_ONLY"
        /\ returned.D2.method = "D2_LLM_WITH_HISTORY"
        /\ returned.D3.method = "D3_RAG_CURRENT_ONLY"
        /\ returned.D4.method = "D4_RAG_WITH_HISTORY"
        /\ returned.D1.timestamp < returned.D2.timestamp
        /\ returned.D2.timestamp < returned.D3.timestamp
        /\ returned.D3.timestamp < returned.D4.timestamp
        /\ Len(calls) >= 4
        /\ calls[1].request.messages =
             <<[role |-> "system", content |-> SYSTEM_PROMPTS.d1_no_history],
               [role |-> "user", content |-> scenario.current_question]>>
        /\ Len(calls[2].request.messages) = Len(HistoryOfScenario) + 2
        /\ calls[2].request.messages[1] =
             [role |-> "system", content |-> SYSTEM_PROMPTS.d2_with_history]
        /\ \A i \in 1..Len(HistoryOfScenario) :
             calls[2].request.messages[i + 1].content = HistoryOfScenario[i]
        /\ calls[2].request.messages[Len(HistoryOfScenario) + 2] =
             [role |-> "user", content |-> scenario.current_question]
        /\ IF HasBackend
           THEN /\ IsSearchCall(calls[3])
                /\ calls[3].request.query = scenario.current_question
           ELSE /\ IsLLMCall(calls[3])
                /\ calls[3].request.messages[1] =
                     [role |-> "system", content |-> SYSTEM_PROMPTS.d3_rag_no_history]
        /\ \E e \in 4..Len(calls) :
             /\ EnhancementCalls = {e}
             /\ e = (IF IsSearchCall(calls[3]) /\ calls[3].reply.ok THEN 5 ELSE 4)
             /\ calls[e].request.messages =
                  <<[role |-> "user",
                     content |-> QUERY_ENHANCEMENT_PROMPT(
                         Join(<<"\n">>, [i \in 1..Len(HistoryOfScenario) |->
                                            <<"- ">> \o HistoryOfScenario[i]]),
                         scenario.current_question)]>>

\* C20 witness: run_all_methods returned its four records although the
\* generation call of D1 and the search of D3 had failed
C20_Witness ==
    /\ method = "ALL"
    /\ DOMAIN returned = {"D1", "D2", "D3", "D4"}
    /\ ~calls[1].reply.ok
    /\ IsErrorRecord(returned.D1)
    /\ IsSearchCall(calls[3])
    /\ ~calls[3].reply.ok
    /\ IsErrorRecord(returned.D3)
    /\ IsSuccessRecord(returned.D4)

----------------------------------------------------------------------------
(* No retry; the batch *)

\* the strategies the batch was asked to run
SelectedMethods ==
    IF applied_args.methods = {"<None>"} THEN {"D1", "D2", "D3", "D4"}
    ELSE applied_args.methods

\* the entry of the scenario processed last, and the calls strategy m issued
\* for it
LastEntry == applied_result.all_results[Len(applied_result.all_results)]
CallsOf(m) == applied_result.calls_of[m]

\* the calls of strategy m that are generation calls, search calls,
\* enhancement calls
GenerationCallsOf(m) ==
    {i \in 1..Len(CallsOf(m)) : IsGenerationCall(CallsOf(m)[i], m)}
SearchCallsOf(m) ==
    {i \in 1..Len(CallsOf(m)) : IsSearchCall(CallsOf(m)[i])}
EnhancementCallsOf(m) ==
    {i \in 1..Len(CallsOf(m)) : IsEnhancementCall(CallsOf(m)[i])}

\* C21: there is no retry. In every strategy run of a batch each provider
\* operation (enhancement, search, generation) is issued at most once, and
\* no call follows a failed search or generation call. The failure is
\* recorded once, as the error record of that strategy in the scenario's
\* entry; every other selected strategy of the scenario still runs, the
\* batch goes on to the next scenario, and it returns one entry per input
\* scenario, in input order.
C21_NoRetryAndBatchProceeds ==
    LET done == applied_result.all_results
        scenarios == applied_args.scenarios
    IN  /\ Len(done) <= Len(scenarios)
        /\ applied_result.returned => Len(done) = Len(scenarios)
        /\ \A i \in 1..Len(done) :
             /\ done[i].scenario_id = scenarios[i].id
             /\ DOMAIN done[i].results = SelectedMethods
        /\ method = "BATCH" =>
             \A m \in {"D1", "D2", "D3", "D4"} :
                IF m \notin SelectedMethods THEN CallsOf(m) = << >>
                ELSE /\ CallsOf(m) # << >>
                     /\ Cardinality(GenerationCallsOf(m)) <= 1
                     /\ Cardinality(SearchCallsOf(m)) <= 1
                     /\ Cardinality(EnhancementCallsOf(m)) <= 1
                     /\ \A i \in GenerationCallsOf(m) \cup SearchCallsOf(m) :
                          ~CallsOf(m)[i].reply.ok =>
                              /\ i = Len(CallsOf(m))
                              /\ IsErrorRecord(LastEntry.results[m])
                     /\ (\A i \in 1..Len(CallsOf(m)) : CallsOf(m)[i].reply.ok) =>
                          IsSuccessRecord(LastEntry.results[m])

\* C21 witness: the batch returned two entries; in the second scenario the
\* search of D3 failed, D3 issued nothing after it, and D4 still ran
C21_Witness ==
    /\ applied_result.returned
    /\ Len(applied_result.all_results) = 2
    /\ SelectedMethods = {"D1", "D2", "D3", "D4"}
    /\ Len(CallsOf("D3")) = 1
    /\ IsSearchCall(CallsOf("D3")[1])
    /\ ~CallsOf("D3")[1].reply.ok
    /\ IsErrorRecord(LastEntry.results["D3"])
    /\ IsSuccessRecord(LastEntry.results["D4"])
    /\ IsSuccessRecord(LastEntry.results["D1"])

----------------------------------------------------------------------------
(* Construction of the runner *)

\* the runner was constructed with a search key and an engine, and the
\* construction of its SearchHandler raised
HandlerConstructionFailed ==
    /\ Truthy(ctor.tavily_key)
    /\ Truthy(ctor.search_engine)
    /\ SearchHandler(ctor.search_engine, ctor.tavily_key).raised

\* C22: if the construction of the search handler fails while the runner is
\* constructed with a search key and an engine, the constructor raises to
\* its caller: no runner exists that runs D3 or D4 as if search were not
\* configured.
C22_HandlerFailureIsSurfaced ==
    HandlerConstructionFailed =>
        /\ ExperimentRunner(ctor.tavily_key, ctor.search_engine,
                            DEFAULT_TEMPERATURE, ctor.max_results).raised
        /\ method \notin {"D3", "D4"}

\* the run the claim excludes: the handler could not be constructed, and
\* run_d3 answered from the model alone, reporting no search engine
C22_RunsAsIfNotConfigured ==
    /\ HandlerConstructionFailed
    /\ runner.search_handler = NoHandler
    /\ method = "D3"
    /\ SearchCalls = {}
    /\ IsSuccessRecord(returned)
    /\ returned.search_engine = "none"

----------------------------------------------------------------------------
(* Focus coverage *)

\* the term occurs in the response, both lower-cased
TermOccurs(term, response) == Contains(LowerText(term), LowerText(response))

\* twice the weight the claim gives a term when any single word of a term
\* that does not occur counts as a partial match
WeightAnyWord(term, response) ==
    IF TermOccurs(term, response) THEN 2
    ELSE IF \E word \in SplitWords(LowerText(term)) : TermOccurs(word, response)
    THEN 1 ELSE 0

\* twice the weight of a term when only its words of more than three
\* characters count as a partial match
WeightLongWord(term, response) ==
    IF TermOccurs(term, response) THEN 2
    ELSE IF \E word \in SplitWords(LowerText(term)) :
               Len(word) >= 4 /\ TermOccurs(word, response)
    THEN 1 ELSE 0

\* C23 as stated: the focus coverage for a non-empty expected_focus is the
\* sum over the terms of 1 for a term that occurs in the lower-cased
\* response, else 0.5 if any single word of the term occurs in it, else 0,
\* divided by the number of terms; each term counts once, the value lies in
\* [0, 1], and an empty expected_focus gives 0.
C23_CoverageAnyWord ==
    applied = "_calculate_focus_coverage" =>
        LET terms == applied_args.expected_focus
            coverage == applied_result.value
        IN  /\ coverage[2] > 0
            /\ 0 <= coverage[1] /\ coverage[1] <= coverage[2]
            /\ terms = << >> => coverage[1] = 0
            /\ terms # << >> =>
                 coverage[1] * 2 * Len(terms) =
                    coverage[2] * SumOf([i \in 1..Len(terms) |->
                                           WeightAnyWord(terms[i], applied_args.response)])

\* C23 amended: as above, but a word of a term gives the partial weight 0.5
\* only when it has more than three characters.
C23_CoverageLongWord ==
    applied = "_calculate_focus_coverage" =>
        LET terms == applied_args.expected_focus
            coverage == applied_result.value
        IN  /\ coverage[2] > 0
            /\ 0 <= coverage[1] /\ coverage[1] <= coverage[2]
            /\ terms = << >> => coverage[1] = 0
            /\ terms # << >> =>
                 coverage[1] * 2 * Len(terms) =
                    coverage[2] * SumOf([i \in 1..Len(terms) |->
                                           WeightLongWord(terms[i], applied_args.response)])

\* C23 witness: of the terms "knee pain", "Vitamin D", "rest" the response
\* "Rest the knee" matches the first in one word and the third in full: the
\* coverage is 3 halves of 3 terms
C23_Witness ==
    /\ applied = "_calculate_focus_coverage"
    /\ Len(applied_args.expected_focus) = 3
    /\ applied_args.expected_focus[1] = <<"k", "n", "e", "e", " ", "p", "a", "i", "n">>
    /\ applied_args.expected_focus[3] = <<"r", "e", "s", "t">>
    /\ applied_args.response =
         <<"R", "e", "s", "t", " ", "t", "h", "e", " ", "k", "n", "e", "e">>
    /\ applied_result.value = <<3, 6>>

----------------------------------------------------------------------------
(* The results file *)

\* the file is absent or holds a list of entries
Intact(file) == file.kind = "absent" \/ (file.kind = "json" /\ file.doc.type = "list")

\* the entries a save_results argument contributes
EntriesOf(results) == IF results.type = "list" THEN results.v ELSE <<results.items>>

\* C24: on an absent or intact results file, every save_results call leaves
\* a file from which load_results returns what it returned before the call
\* followed by the entries of the call, in order (the elements of a list
\* argument, a single record itself): by induction, after any sequence of
\* calls load_results returns the concatenation of all that was saved, and
\* no call removes or alters an earlier entry.
C24_ResultsLogIsAppendOnly ==
    [][(Intact(store) /\ applied' = "save_results")
          => /\ ~load_results(store').raised
             /\ load_results(store').value
                    = List(load_results(store).value.v \o EntriesOf(applied_args'))
             /\ Intact(store')]_vars

\* a list of two entries was saved after a single record, on a file that
\* held an entry already: the file holds the four in order
C24_Witness ==
    /\ applied = "save_results"
    /\ applied_args = List(<<StoreEntry(2), StoreEntry(1)>>)
    /\ store = JsonFile(List(<<StoreEntry(1), StoreEntry(2), StoreEntry(2), StoreEntry(1)>>))

----------------------------------------------------------------------------
(* run_d1 called twice *)

\* the i-th call of run_d1 issued one provider call of its own, the D1
\* request for the question, and its record tells what that call was
\* answered
OwnOutcome(i) ==
    LET run == applied_result[i]
    IN  /\ Len(run.calls) = 1
        /\ IsGenerationCall(run.calls[1], "D1")
        /\ run.calls[1].request.messages
               = <<Message("system", SYSTEM_PROMPTS.d1_no_history),
                   Message("user", applied_args.question)>>
        /\ run.record.method = "D1_LLM_ONLY"
        /\ IF run.calls[1].reply.ok
           THEN /\ IsSuccessRecord(run.record)
                /\ run.record.response = run.calls[1].reply.content
           ELSE /\ IsErrorRecord(run.record)
                /\ run.record.error
                       = <<"LLM generation failed: ">> \o run.calls[1].reply.msg

\* C25: each of the calls of run_d1 with the same question issues a provider
\* call of its own (nothing is cached), with the same request, and yields a
\* record with the same method tag; the record of a call tells the outcome
\* of that call's own provider call, whatever the outcome of the calls
\* before it, a failure included.
C25_RepeatedCallsAreIndependent ==
    applied = "run_d1" =>
        \A i \in 1..Len(applied_result) :
            /\ OwnOutcome(i)
            /\ applied_result[i].calls[1].request = applied_result[1].calls[1].request
            /\ applied_result[i].record.method = applied_result[1].record.method

\* run_d1 was called twice with the same question: the first call failed,
\* the second one was answered
C25_Witness ==
    /\ applied = "run_d1"
    /\ Len(applied_result) = 2
    /\ IsErrorRecord(applied_result[1].record)
    /\ IsSuccessRecord(applied_result[2].record)
    /\ applied_result[2].record.response = <<"answer A">>

----------------------------------------------------------------------------
(* The dashboard *)

\* the entries the dashboard saved: the last ones of the results file
SavedByApp ==
    LET held == store.doc.v
        n == Len(applied_result.all_results)
    IN  SubSeq(held, Len(held) - n + 1, Len(held))

\* C26: in the run of the dashboard on the last scenario, for every method
\* whose strategy call returned an error record, the entry that is saved for
\* the method is that record, with the strategy's own error message, and the
\* page shows that message; no other error takes its place.
C26_StrategyErrorIsKept ==
    (applied = "experiment_tab" /\ applied_result.saved) =>
        \A name \in applied_args.methods :
            LET strategy_record == applied_result.result_of[name]
                saved_record == SavedByApp[Len(SavedByApp)].results[name]
                page == applied_result.shown[name]
            IN  IsErrorRecord(strategy_record) =>
                    /\ "method" \in DOMAIN saved_record
                    /\ saved_record = strategy_record
                    /\ \E i \in 1..Len(page.text) :
                           SubSeq(page.text, i, Len(page.text)) = strategy_record.error

\* run_d1 returned the error record of a rate limit failure; the entry saved
\* for D1 says "Error: 'response'" and the page shows the same
C26_SecondaryErrorIsSaved ==
    /\ applied = "experiment_tab"
    /\ applied_result.saved
    /\ "D1: LLM-only (no history)" \in applied_args.methods
    /\ IsErrorRecord(applied_result.result_of["D1: LLM-only (no history)"])
    /\ applied_result.result_of["D1: LLM-only (no history)"].error
           = <<"LLM generation failed: ", "429 rate limit">>
    /\ SavedByApp[Len(SavedByApp)].results["D1: LLM-only (no history)"]
           = [response |-> <<"Error: ", "'response'">>, error |-> TRUE]
    /\ applied_result.shown["D1: LLM-only (no history)"]
           = [by |-> "st.error",
              text |-> <<"Error running ", "D1: LLM-only (no history)", ": ",
                         "'response'">>]

----------------------------------------------------------------------------
(* The number of search results *)

\* C27: the search_results of a D3 or D4 record has no more entries than
\* the runner's max_results, whatever the backend returned.
C27_ResultsWithinMaxResults ==
    (method \in {"D3", "D4"} /\ IsSuccessRecord(returned)) =>
        Len(returned.search_results) <= runner.max_results

\* run_d3 of a runner with max_results = 1 asked the backend for one result,
\* the backend returned two, and the record holds the two
C27_MoreThanMaxResults ==
    /\ method = "D3"
    /\ runner.max_results = 1
    /\ SearchCalls # {}
    /\ \A i \in SearchCalls : /\ calls[i].request.max_results = 1
                              /\ calls[i].reply.ok
                              /\ Len(calls[i].reply.results) = 2
    /\ IsSuccessRecord(returned)
    /\ Len(returned.search_results) = 2

----------------------------------------------------------------------------
(* The query of the with-history RAG search *)

\* C28: the question being non-empty, whatever text the enhancement call
\* returns (an empty text, or one of quotes and whitespace only, included),
\* every search call of run_d4 carries a non-empty query.
C28_SearchQueryIsNotEmpty ==
    (method = "D4" /\ scenario.current_question # << >>) =>
        \A i \in SearchCalls : calls[i].request.query # << >>

\* the enhancement call returned a pair of quotes after a space; run_d4
\* searched for the empty query and recorded it
C28_EmptyQuerySearched ==
    /\ method = "D4"
    /\ scenario.current_question # << >>
    /\ EnhancementCalls # {}
    /\ \A i \in EnhancementCalls : /\ calls[i].reply.ok
                                   /\ calls[i].reply.content = <<" ", "\"", "\"">>
    /\ SearchCalls # {}
    /\ \A i \in SearchCalls : calls[i].request.query = << >>
    /\ IsSuccessRecord(returned)
    /\ returned.search_query = << >>

----------------------------------------------------------------------------
(* The corrupted results file *)

\* the file holds something that cannot be read as JSON
Corrupted(file) == file \in {NotJsonFile, NotUtf8File}

\* C29: on a corrupted results file load_results returns the empty list and
\* raises nothing, and save_results raises nothing and leaves a file that
\* holds the entries of the call and nothing else.
C29_CorruptedStoreIsEmpty ==
    [][Corrupted(store) =>
          /\ applied' = "load_results"
                => /\ ~applied_result'.raised
                   /\ applied_result'.value = List(<< >>)
          /\ applied' = "save_results"
                => /\ ~applied_result'.raised
                   /\ store' = JsonFile(List(EntriesOf(applied_args')))]_vars

\* save_results was called with an entry on a file that is not UTF-8: the
\* file is as it was, and load_results finds no entry
C29_SaveOnUndecodableFileIsLost ==
    /\ applied = "save_results"
    /\ applied_args = Dict(StoreEntry(1))
    /\ store = NotUtf8File
    /\ load_results(store).value = List(<< >>)

----------------------------------------------------------------------------
(* Shared state *)

\* the reply that the call of cs satisfying P received, if there is one
ReplyTo(cs, P(_)) ==
    IF \E i \in 1..Len(cs) : P(cs[i])
    THEN cs[CHOOSE i \in 1..Len(cs) : P(cs[i])].reply
    ELSE NotAsked

\* the provider calls of a first run of strategy m on a runner just
\* constructed from the constructor's arguments, on scen, the calls being
\* answered as those of cs were
CallsOfFirstRun(m, scen, cs) ==
    LET fresh == ExperimentRunner(ctor.tavily_key, ctor.search_engine,
                                  DEFAULT_TEMPERATURE, ctor.max_results).value
        IsGeneration(c) == IsGenerationCall(c, m)
        e_out == ReplyTo(cs, IsEnhancementCall)
        s_out == ReplyTo(cs, IsSearchCall)
        g_out == ReplyTo(cs, IsGeneration)
    IN  CASE m = "D1" -> run_d1(fresh, scen.current_question, 0, g_out).calls
          [] m = "D2" -> run_d2(fresh, scen.conversation_history,
                                scen.current_question, 0, g_out).calls
          [] m = "D3" -> run_d3(fresh, scen.current_question, 0, s_out, g_out).calls
          [] OTHER -> run_d4(fresh, scen.conversation_history, scen.current_question,
                             0, e_out, s_out, g_out).calls

====
